---- MODULE Spec2Model ----
(***************************************************************************)
(* Streaming layer of the OpenAI back-end of artificial-rs.                *)
(*                                                                         *)
(* The event stream built by chat_complete_events_stream pulls decoded     *)
(* chunk DTOs from OpenAiClient::chat_completion_stream and turns them     *)
(* into StreamEvent items.  The stream is a try_stream! generator: it runs *)
(* inside a poll of its consumer and is suspended at every yield.  One     *)
(* action of the model is one poll: an item pulled from the inner stream   *)
(* with the loop body up to its first yield, or the loop body resumed      *)
(* behind a yield up to the next one.                                      *)
(*                                                                         *)
(* Below the event stream sits OpenAiClient (client.rs): the POST with     *)
(* retry and backoff, post_json_with_retry, and the frame decoder of       *)
(* chat_completion_stream, which cuts the response body into frames and    *)
(* deserializes their payloads.  Spec is the event stream, SpecRetry the   *)
(* retrying POST, SpecBackoff the backoff policy alone and SpecFrames one  *)
(* streaming call of the client, from its POST to the end of the body.     *)
(* SpecReads is the same call on short bodies delivered in more reads.     *)
(* SpecPull is two calls at once with both generators a poll at a time:    *)
(* the application asks for an item, the generators run to their next      *)
(* yield or pending await, and the application may drop the stream.        *)
(* SpecRetryFair is SpecRetry with a caller that keeps polling and sends   *)
(* and sleeps that return; whether resp.text() returns is left open there. *)
(* SpecChat is the non-streaming call: the POST, the decoding of the whole *)
(* body and the mapping done by chat_complete.  chat_completion and        *)
(* chat_completion_stream build the Authorization header from the key of   *)
(* the client before anything is sent, and panic on a key that is no       *)
(* header value.                                                           *)
(***************************************************************************)
EXTENDS Integers, Sequences, FiniteSets, TLC

VARIABLES
    pc,         \* "created": the generator has not been polled; "streaming": it
                \* is at stream.next().await; "yielded": it is suspended at a
                \* yield; "ended": it has returned; "panicked": its first poll
                \* has panicked
    susp_at,    \* where the generator is suspended: the state at the top of the
                \* loop body it is in, the HashMap order of that run and the
                \* yields made in it; None at the yield of a `?`, and elsewhere
    out,        \* items the event stream has yielded so far (events, or a final error)
    tool_args,  \* HashMap<usize, String>: argument buffer per tool index
    tool_seen,  \* HashMap<usize, (Option<String>, Option<String>)>: id / name per tool index
    seen_order, \* history: tool indices in the order their tool_seen entry was inserted
    fed,        \* history: items the inner chunk stream has produced so far
    calls,      \* the streaming calls in progress on one adapter, each with the
                \* state of its generator; <<>> where one call is looked at alone
    \* OpenAiClient
    mode,       \* "post": post_json_with_retry alone; "stream": chat_completion_stream
    retry,      \* self.retry, the RetryPolicy
    api_key,    \* self.api_key, as the client was given it
    cpc,        \* where the call stands
    attempt,    \* let mut attempt: u32
    delay,      \* the delay of the sleep in progress
    sent,       \* history: number of requests sent
    sleeps,     \* history: the sleeps made, each with its attempt number and delay
    outcomes,   \* history: what each send came back with
    result,     \* what post_json_with_retry returned, None before
    text,       \* history: what resp.text() gave, None before
    running,    \* the task the executor thread is inside of: "none", "req"
    other_steps,\* steps an unrelated task on the same thread has taken
    rest,       \* bytes of the response body not yet delivered
    buf,        \* let mut buf = Vec::new()
    items,      \* items chat_completion_stream has yielded
    frames,     \* history: the frames drained from buf
    delivered   \* history: the chunks bytes_stream has delivered

evars == <<pc, susp_at, out, tool_args, tool_seen, seen_order, fed, calls>>

cvars == <<mode, retry, api_key, cpc, attempt, delay, sent, sleeps, outcomes, result,
           text, running, other_steps, rest, buf, items, frames, delivered>>

vars == <<evars, cvars>>

----------------------------------------------------------------------------
(* Bounds of the exploration *)

MaxIndex == 1       \* tool-call indices are 0..MaxIndex
MaxItems == 3       \* chunks drawn from the full alphabet
MaxDeepItems == 5   \* chunks of a stream that only talks about tool index 0

Indices == 0..MaxIndex

----------------------------------------------------------------------------
(* Numbers *)

\* the least and the greatest element of a set of numbers that is not empty
Least(S) == CHOOSE p \in S : \A q \in S : p <= q

Greatest(S) == CHOOSE p \in S : \A q \in S : q <= p

Min(a, b) == IF a < b THEN a ELSE b

Max(a, b) == IF a < b THEN b ELSE a

----------------------------------------------------------------------------
(* Bytes.  A byte is a string: the character itself when the byte is a     *)
(* printable ASCII character (0x20 to 0x7E) other than the grave accent,   *)
(* "\t", "\n", "\f" and "\r" for 0x09, 0x0A, 0x0C and 0x0D, and its two    *)
(* hexadecimal digits in capitals for every other byte ("00", "0B", "60",  *)
(* "7F", "C3").  A str, a String and a Vec<u8> are sequences of bytes; a   *)
(* str holds UTF-8.                                                        *)

HexDigits ==
    <<"0", "1", "2", "3", "4", "5", "6", "7", "8", "9", "A", "B", "C", "D", "E", "F">>

Printable ==
    <<" ", "!", "\"", "#", "$", "%", "&", "'", "(", ")", "*", "+",
      ",", "-", ".", "/", "0", "1", "2", "3", "4", "5", "6", "7",
      "8", "9", ":", ";", "<", "=", ">", "?", "@", "A", "B", "C",
      "D", "E", "F", "G", "H", "I", "J", "K", "L", "M", "N", "O",
      "P", "Q", "R", "S", "T", "U", "V", "W", "X", "Y", "Z", "[",
      "\\", "]", "^", "_", "60", "a", "b", "c", "d", "e", "f", "g",
      "h", "i", "j", "k", "l", "m", "n", "o", "p", "q", "r", "s",
      "t", "u", "v", "w", "x", "y", "z", "{", "|", "}", "~">>

ByteOf(i) ==
    IF 32 <= i /\ i <= 126 THEN Printable[i - 31]
    ELSE IF i = 9 THEN "\t"
    ELSE IF i = 10 THEN "\n"
    ELSE IF i = 12 THEN "\f"
    ELSE IF i = 13 THEN "\r"
    ELSE HexDigits[(i \div 16) + 1] \o HexDigits[(i % 16) + 1]

Bytes == [i \in 0..255 |-> ByteOf(i)]

ByteIndex == [b \in {Bytes[i] : i \in 0..255} |-> CHOOSE i \in 0..255 : Bytes[i] = b]

\* the number a byte stands for
ByteVal(b) == ByteIndex[b]

Ascii == {Bytes[i] : i \in 0..127}

\* bytes below 0x20
Controls == {Bytes[i] : i \in 0..31}

Digits == {"0", "1", "2", "3", "4", "5", "6", "7", "8", "9"}

\* c - b'0'
DigitVal(c) == ByteVal(c) - 48

----------------------------------------------------------------------------
(* Natural numbers of any size: the decimal digits, the most significant   *)
(* first, without leading zeros; <<0>> is zero.  u32, u64 and usize values *)
(* are such numbers; an i32 or i64 value is a record of its sign and its   *)
(* magnitude.                                                              *)

\* the digits without their leading zeros
Norm(d) ==
    LET nz == {i \in 1..Len(d) : d[i] # 0}
    IN  IF nz = {} THEN <<0>> ELSE SubSeq(d, Least(nz), Len(d))

RECURSIVE BigOf(_)
BigOf(n) == IF n < 10 THEN <<n>> ELSE Append(BigOf(n \div 10), n % 10)

BigLess(a, b) ==
    \/ Len(a) < Len(b)
    \/ /\ Len(a) = Len(b)
       /\ \E i \in 1..Len(a) : a[i] < b[i] /\ \A j \in 1..(i - 1) : a[j] = b[j]

BigLeq(a, b) == a = b \/ BigLess(a, b)

BigMin(a, b) == IF BigLess(b, a) THEN b ELSE a

BigMax(a, b) == IF BigLess(a, b) THEN b ELSE a

\* the i-th digit from the right, 0 where there is none
DigitAt(a, i) == IF 1 <= i /\ i <= Len(a) THEN a[Len(a) - i + 1] ELSE 0

BigAdd(a, b) ==
    LET n == Max(Len(a), Len(b)) + 1
        sum == [i \in 1..n |-> DigitAt(a, i) + DigitAt(b, i)]
        carry(i) == \E j \in 1..(i - 1) :
                        sum[j] >= 10 /\ \A k \in (j + 1)..(i - 1) : sum[k] = 9
    IN  Norm([i \in 1..n |->
                (sum[n - i + 1] + (IF carry(n - i + 1) THEN 1 ELSE 0)) % 10])

\* a - b, for a >= b
BigSub(a, b) ==
    LET n == Len(a)
        diff == [i \in 1..n |-> DigitAt(a, i) - DigitAt(b, i)]
        borrow(i) == \E j \in 1..(i - 1) :
                        diff[j] < 0 /\ \A k \in (j + 1)..(i - 1) : diff[k] = 0
    IN  Norm([i \in 1..n |->
                (diff[n - i + 1] - (IF borrow(n - i + 1) THEN 1 ELSE 0) + 10) % 10])

BigDouble(a) ==
    LET n == Len(a) + 1
    IN  Norm([i \in 1..n |->
                ((2 * DigitAt(a, n - i + 1)) % 10)
                + (IF DigitAt(a, n - i) >= 5 THEN 1 ELSE 0)])

\* a / 2, rounded down
BigHalf(a) ==
    Norm([i \in 1..Len(a) |->
            (a[i] + (IF i > 1 /\ a[i - 1] % 2 = 1 THEN 10 ELSE 0)) \div 2])

BigOdd(a) == a[Len(a)] % 2 = 1

\* a * 2^n
RECURSIVE BigShl(_, _)
BigShl(a, n) ==
    IF n = 0 THEN a
    ELSE IF n = 1 THEN BigDouble(a)
    ELSE LET h == BigShl(a, n \div 2)
         IN  IF h = <<0>> THEN h ELSE BigShl(h, n - (n \div 2))

\* a * 10^n
BigShift10(a, n) == IF a = <<0>> THEN a ELSE a \o [i \in 1..n |-> 0]

\* the multiples 0 * a .. 9 * a, from a, 2 * a, 4 * a and 8 * a
MultiplesFrom(a, a2, a4, a8) ==
    [j \in 0..9 |->
        CASE j = 0 -> <<0>>
          [] j = 1 -> a
          [] j = 2 -> a2
          [] j = 3 -> BigAdd(a2, a)
          [] j = 4 -> a4
          [] j = 5 -> BigAdd(a4, a)
          [] j = 6 -> BigAdd(a4, a2)
          [] j = 7 -> BigSub(a8, a)
          [] j = 8 -> a8
          [] j = 9 -> BigAdd(a8, a)]

Multiples(a) == MultiplesFrom(a, BigShl(a, 1), BigShl(a, 2), BigShl(a, 3))

\* the sum of the products of a with the digits i..j of b, each at its place
RECURSIVE MulRange(_, _, _, _)
MulRange(mult, b, i, j) ==
    IF i = j THEN BigShift10(mult[b[i]], Len(b) - i)
    ELSE LET mid == (i + j) \div 2
         IN  BigAdd(MulRange(mult, b, i, mid), MulRange(mult, b, mid + 1, j))

BigMul(a, b) == MulRange(Multiples(a), b, 1, Len(b))

\* long division over the digits i..j of a: st holds the quotient so far
\* and the remainder
RECURSIVE DivRange(_, _, _, _, _)
DivRange(st, a, mult, i, j) ==
    IF i = j
    THEN LET r == Norm(Append(st.r, a[i]))
             d == Greatest({k \in 0..9 : BigLeq(mult[k], r)})
         IN  [q |-> Append(st.q, d), r |-> BigSub(r, mult[d])]
    ELSE LET mid == (i + j) \div 2
             h == DivRange(st, a, mult, i, mid)
         IN  IF Len(h.q) < mid THEN h ELSE DivRange(h, a, mult, mid + 1, j)

\* the quotient without leading zeros, and the remainder
Quotient(st) == [q |-> Norm(st.q), r |-> st.r]

\* a / b rounded down and the remainder, for b > 0
BigDivMod(a, b) ==
    Quotient(DivRange([q |-> <<>>, r |-> <<0>>], a, Multiples(b), 1, Len(a)))

U32Max == <<4, 2, 9, 4, 9, 6, 7, 2, 9, 5>>
I32Max == <<2, 1, 4, 7, 4, 8, 3, 6, 4, 7>>
U64Max == <<1, 8, 4, 4, 6, 7, 4, 4, 0, 7, 3, 7, 0, 9, 5, 5, 1, 6, 1, 5>>
I64Max == <<9, 2, 2, 3, 3, 7, 2, 0, 3, 6, 8, 5, 4, 7, 7, 5, 8, 0, 7>>
\* 2^63, the magnitude of i64::MIN
I64MinMag == <<9, 2, 2, 3, 3, 7, 2, 0, 3, 6, 8, 5, 4, 7, 7, 5, 8, 0, 8>>

----------------------------------------------------------------------------
(* f64.  A finite double is the record of its sign, its mantissa m and its *)
(* exponent e, and stands for m * 2^e: 2^52 <= m < 2^53 and -1074 <= e <=  *)
(* 971 for a normal number, m < 2^52 and e = -1074 for a subnormal one,    *)
(* m = 0 and e = 0 for zero.  inf says that the result is not finite.      *)

Two52 == <<4, 5, 0, 3, 5, 9, 9, 6, 2, 7, 3, 7, 0, 4, 9, 6>>
Two53 == <<9, 0, 0, 7, 1, 9, 9, 2, 5, 4, 7, 4, 0, 9, 9, 2>>

F64(neg, m, e) == [inf |-> FALSE, neg |-> neg, m |-> m, e |-> e]

F64Inf(neg) == [inf |-> TRUE, neg |-> neg, m |-> <<0>>, e |-> 0]

\* one step of bringing r.p * 2^r.x into the range of a mantissa: g is the
\* bit shifted out last, s says that a 1 was shifted out before it
ShiftStep(r) ==
    IF r.p # <<0>> /\ (BigLeq(Two53, r.p) \/ r.x < -1074)
    THEN [p |-> BigHalf(r.p), x |-> r.x + 1, g |-> BigOdd(r.p), s |-> r.s \/ r.g]
    ELSE IF r.p # <<0>> /\ BigLess(r.p, Two52) /\ r.x > -1074
    THEN [r EXCEPT !.p = BigDouble(r.p), !.x = r.x - 1]
    ELSE r

RECURSIVE ShiftSteps(_, _)
ShiftSteps(r, n) ==
    IF n = 0 THEN r
    ELSE IF n = 1 THEN ShiftStep(r)
    ELSE LET h == ShiftSteps(r, n \div 2)
         IN  IF ShiftStep(h) = h THEN h ELSE ShiftSteps(h, n - (n \div 2))

\* the double of mantissa m and exponent r.x, m being r.p rounded
Rounded(neg, r, m) ==
    IF r.p = <<0>> /\ r.x < -1074 THEN F64(neg, <<0>>, 0)
    ELSE IF m = <<0>> THEN F64(neg, <<0>>, 0)
    ELSE IF m = Two53
         THEN (IF r.x + 1 > 971 THEN F64Inf(neg) ELSE F64(neg, Two52, r.x + 1))
    ELSE IF r.x > 971 THEN F64Inf(neg)
    ELSE F64(neg, m, r.x)

\* r.p rounded: up when the bit shifted out last is set and more was
\* shifted out or r.p is odd
RoundUp(neg, r) ==
    Rounded(neg, r, IF r.g /\ (r.s \/ BigOdd(r.p)) THEN BigAdd(r.p, <<1>>) ELSE r.p)

\* p * 2^x (and a little more when sticky) rounded to the nearest double,
\* ties to even
RoundBig(neg, p, x, sticky) ==
    RoundUp(neg, ShiftSteps([p |-> p, x |-> x, g |-> FALSE, s |-> sticky],
                            4 * Len(p) + 54))

\* significand as f64
U64AsF64(n) == RoundBig(FALSE, n, 0, FALSE)

\* a * b
F64Mul(a, b) ==
    IF a.m = <<0>> \/ b.m = <<0>> THEN F64(a.neg # b.neg, <<0>>, 0)
    ELSE RoundBig(a.neg # b.neg, BigMul(a.m, b.m), a.e + b.e, FALSE)

\* the quotient d.q * 2^x rounded, a remainder counting as sticky
RoundQuotient(neg, d, x) == RoundBig(neg, d.q, x, d.r # <<0>>)

\* a / b, for b # 0: the quotient of the mantissas is taken to 110 binary
\* places
F64Div(a, b) ==
    IF a.m = <<0>> THEN F64(a.neg # b.neg, <<0>>, 0)
    ELSE RoundQuotient(a.neg # b.neg, BigDivMod(BigShl(a.m, 110), b.m),
                       a.e - b.e - 110)

\* POW10[k], the double nearest to 10^k, for k in 0..308
Pow10(k) == RoundBig(FALSE, <<1>> \o [i \in 1..k |-> 0], 0, FALSE)

----------------------------------------------------------------------------
(* Option<T> *)

None == <<>>
Some(x) == <<x>>
IsSome(o) == o # <<>>
Unwrap(o) == o[1]

Last(s) == s[Len(s)]

----------------------------------------------------------------------------
(* UTF-8 *)

\* the number of bytes of the character a leading byte of value v starts,
\* 0 if v leads no character
Utf8Width(v) ==
    IF v < 128 THEN 1
    ELSE IF 194 <= v /\ v <= 223 THEN 2
    ELSE IF 224 <= v /\ v <= 239 THEN 3
    ELSE IF 240 <= v /\ v <= 244 THEN 4
    ELSE 0

IsContinuation(v) == 128 <= v /\ v <= 191

\* the values the byte behind a leading byte of value v may have
SecondByteOk(v, w) ==
    IF v = 224 THEN 160 <= w /\ w <= 191
    ELSE IF v = 237 THEN 128 <= w /\ w <= 159
    ELSE IF v = 240 THEN 144 <= w /\ w <= 191
    ELSE IF v = 244 THEN 128 <= w /\ w <= 143
    ELSE IsContinuation(w)

\* std::str::from_utf8(bytes).is_ok(): every byte that is no continuation
\* byte leads a character that is complete, and every continuation byte
\* belongs to the character led by the last such byte before it
Utf8Ok(v) ==
    LET n == Len(v)
        leads == {i \in 1..n : ~IsContinuation(v[i])}
    IN  /\ \A i \in leads :
             LET w == Utf8Width(v[i])
             IN  /\ w >= 1
                 /\ i + w - 1 <= n
                 /\ \A k \in 1..(w - 1) : IsContinuation(v[i + k])
                 /\ w > 1 => SecondByteOk(v[i], v[i + 1])
        /\ \A i \in (1..n) \ leads :
             LET before == {j \in leads : j < i}
             IN  before # {} /\ i - Greatest(before) < Utf8Width(v[Greatest(before)])

from_utf8_ok(bytes) ==
    \/ \A i \in 1..Len(bytes) : bytes[i] \in Ascii
    \/ Utf8Ok([i \in 1..Len(bytes) |-> ByteVal(bytes[i])])

\* char::encode_utf8, for a code point that is no surrogate
encode_utf8(c) ==
    IF c < 128 THEN <<Bytes[c]>>
    ELSE IF c < 2048 THEN <<Bytes[192 + (c \div 64)], Bytes[128 + (c % 64)]>>
    ELSE IF c < 65536
    THEN <<Bytes[224 + (c \div 4096)], Bytes[128 + ((c \div 64) % 64)],
           Bytes[128 + (c % 64)]>>
    ELSE <<Bytes[240 + (c \div 262144)], Bytes[128 + ((c \div 4096) % 64)],
           Bytes[128 + ((c \div 64) % 64)], Bytes[128 + (c % 64)]>>

\* the characters char::is_whitespace holds of (White_Space), in UTF-8:
\* U+0009 to U+000D, U+0020, U+0085, U+00A0, U+1680, U+2000 to U+200A,
\* U+2028, U+2029, U+202F, U+205F and U+3000
WhiteSpace ==
    {<<"\t">>, <<"\n">>, <<"0B">>, <<"\f">>, <<"\r">>, <<" ">>,
     <<"C2", "85">>, <<"C2", "A0">>, <<"E1", "9A", "80">>,
     <<"E2", "80", "A8">>, <<"E2", "80", "A9">>, <<"E2", "80", "AF">>,
     <<"E2", "81", "9F">>, <<"E3", "80", "80">>}
    \cup {<<"E2", "80", Bytes[128 + k]>> : k \in 0..10}

\* the character of the str s that starts at p
CharAt(s, p) ==
    SubSeq(s, p, Min(Len(s), p + Max(1, Utf8Width(ByteVal(s[p]))) - 1))

\* the positions of s where a character starts that is no white space
BlackStarts(s) ==
    {p \in 1..Len(s) : s[p] \notin {" ", "\t", "\n", "\r", "\f", "0B"}
                       /\ (s[p] \in Ascii
                           \/ (~IsContinuation(ByteVal(s[p]))
                               /\ CharAt(s, p) \notin WhiteSpace))}

\* s from the first to the last of its characters that start at black
Between(s, black) ==
    IF black = {} THEN <<>>
    ELSE SubSeq(s, Least(black),
                Greatest(black) + Len(CharAt(s, Greatest(black))) - 1)

\* str::trim(): s without the white space at its two ends
trim(s) == Between(s, BlackStarts(s))

----------------------------------------------------------------------------
(* str::parse for the unsigned integers *)

\* the number the digits stand for
DigitsOf(s) == Norm([i \in 1..Len(s) |-> DigitVal(s[i])])

\* s.parse::<T>().ok() for an unsigned T of the greatest value max: an
\* optional plus sign and at least one digit, nothing else, and a number
\* that T holds
ParseUnsigned(s, max) ==
    LET d == IF s # <<>> /\ s[1] = "+" THEN Tail(s) ELSE s
    IN  IF d = <<>> \/ \E i \in 1..Len(d) : d[i] \notin Digits THEN None
        ELSE IF BigLeq(DigitsOf(d), max) THEN Some(DigitsOf(d))
        ELSE None

----------------------------------------------------------------------------
(* std::time::Duration: the number of its nanoseconds *)

\* Duration::MAX: u64::MAX seconds and 999_999_999 nanoseconds
DurationMax == U64Max \o <<9, 9, 9, 9, 9, 9, 9, 9, 9>>

\* Duration::from_secs(secs)
from_secs(secs) == BigShift10(secs, 9)

\* Duration::from_millis(millis)
from_millis(millis) == BigShift10(millis, 6)

\* Duration::as_secs()
as_secs(d) == IF Len(d) <= 9 THEN <<0>> ELSE SubSeq(d, 1, Len(d) - 9)

\* Duration::saturating_mul(rhs), rhs a u32
saturating_mul(d, rhs) == BigMin(BigMul(d, BigOf(rhs)), DurationMax)

----------------------------------------------------------------------------
(* serde_json: the text of a document is read into a node, and a node is   *)
(* then taken as a Value or as a DTO.  A node records what the reader of   *)
(* serde_json finds at a place whatever it is asked to produce there:      *)
(*   t     "null", "bool", "num", "str", "arr" or "obj";                   *)
(*   ok    the node can be taken as a Value: its numbers are in range, its *)
(*         strings and keys are UTF-8 without lone surrogates (a value     *)
(*         that is skipped, IgnoredAny, need not be ok);                   *)
(*   h     the number of containers nested in it, itself counted;          *)
(*   v     the Value it stands for when ok;                                *)
(*   keys, vals, kok   the members of an object or the elements of an      *)
(*         array as written, and whether every key is valid.               *)
(* A Value is [t |-> "null"], [t |-> "bool", b |-> ..], a number           *)
(* [t |-> "u64", n |-> ..], [t |-> "i64", n |-> magnitude] (negative) or   *)
(* [t |-> "f64", f |-> double], [t |-> "str", s |-> bytes],                *)
(* [t |-> "arr", vals |-> ..] or [t |-> "obj", keys |-> .., vals |-> ..]   *)
(* with the keys in ascending order, each once.                            *)

VNull == [t |-> "null"]

Leaf(t, ok, v) ==
    [t |-> t, ok |-> ok, h |-> 0, v |-> v, keys |-> <<>>, vals |-> <<>>, kok |-> TRUE]

\* String::cmp: byte by byte
BytesLess(a, b) ==
    LET diff == {i \in 1..Min(Len(a), Len(b)) : a[i] # b[i]}
    IN  IF diff = {} THEN Len(a) < Len(b)
        ELSE ByteVal(a[Least(diff)]) < ByteVal(b[Least(diff)])

\* Map<String, Value> built by inserting the members in turn: a key that
\* comes again replaces the value
MapValue(keys, vals) ==
    LET U == {keys[i] : i \in 1..Len(keys)}
        sorted == [r \in 1..Cardinality(U) |->
                     CHOOSE k \in U : Cardinality({k2 \in U : BytesLess(k2, k)}) = r - 1]
    IN  [t |-> "obj", keys |-> sorted,
         vals |-> [r \in 1..Cardinality(U) |->
                     vals[Greatest({i \in 1..Len(keys) : keys[i] = sorted[r]})].v]]

Height(vals) == 1 + Greatest({0} \cup {vals[i].h : i \in 1..Len(vals)})

ArrNode(vals) ==
    LET ok == \A i \in 1..Len(vals) : vals[i].ok
    IN  [t |-> "arr", ok |-> ok, h |-> Height(vals),
         v |-> IF ok THEN [t |-> "arr", vals |-> [i \in 1..Len(vals) |-> vals[i].v]]
               ELSE VNull,
         keys |-> <<>>, vals |-> vals, kok |-> TRUE]

ObjNode(keys, kok, vals) ==
    LET ok == kok /\ \A i \in 1..Len(vals) : vals[i].ok
    IN  [t |-> "obj", ok |-> ok, h |-> Height(vals),
         v |-> IF ok THEN MapValue(keys, vals) ELSE VNull,
         keys |-> keys, vals |-> vals, kok |-> kok]

JFail == [ok |-> FALSE, pos |-> 0, val |-> Leaf("null", FALSE, VNull)]

JOk(p, v) == [ok |-> TRUE, pos |-> p, val |-> v]

\* the first position from p on whose byte is in S, or is not in S; the
\* position behind s if there is none
FirstIn(s, p, S) ==
    Least({q \in p..(Len(s) + 1) : q > Len(s) \/ s[q] \in S})

FirstNotIn(s, p, S) ==
    IF p > Len(s) \/ s[p] \notin S THEN p
    ELSE Least({q \in p..(Len(s) + 1) : q > Len(s) \/ s[q] \notin S})

\* parse_whitespace: blank, line feed, tab and carriage return are skipped
JSkip(s, p) == FirstNotIn(s, p, {" ", "\n", "\t", "\r"})

\* the digits of s from p up to q, q not included
DigitRun(s, p, q) == [i \in 1..(q - p) |-> DigitVal(s[p + i - 1])]

\* how many of the digits d the significand takes in: a digit is taken as
\* long as significand * 10 + digit does not pass u64::MAX
Taken(significand, d) ==
    IF Len(significand) + Len(d) < Len(U64Max) THEN Len(d)
    ELSE Cardinality({k \in 1..Len(d) :
                        BigLeq(Norm(significand \o SubSeq(d, 1, k)), U64Max)})

RECURSIVE IntOf(_)
IntOf(d) == IF Len(d) = 1 THEN d[1] ELSE 10 * IntOf(SubSeq(d, 1, Len(d) - 1)) + d[Len(d)]

\* the loop of f64_from_parts for a negative exponent: f is divided by
\* 1e308 as long as the exponent is beyond the table POW10
RECURSIVE DivideDown(_, _)
DivideDown(f, exponent) ==
    IF f.m = <<0>> THEN f
    ELSE IF exponent <= 308 THEN F64Div(f, Pow10(exponent))
    ELSE DivideDown(F64Div(f, Pow10(308)), exponent - 308)

\* f * 10^exponent, through the table POW10
Scaled(f, exponent) ==
    IF f.m = <<0>> THEN f
    ELSE IF exponent > 308 THEN F64Inf(FALSE)
    ELSE IF exponent >= 0 THEN F64Mul(f, Pow10(exponent))
    ELSE DivideDown(f, 0 - exponent)

\* f64_from_parts: Ok(f) or Err(NumberOutOfRange), which is inf here
f64_from_parts(positive, significand, exponent) ==
    [Scaled(U64AsF64(significand), exponent) EXCEPT !.neg = ~positive]

NumNode(v) == Leaf("num", TRUE, v)

FloatNode(f) ==
    IF f.inf THEN Leaf("num", FALSE, VNull)
    ELSE NumNode([t |-> "f64", f |-> [neg |-> f.neg, m |-> f.m, e |-> f.e]])

\* parse_number without fraction and exponent
IntegerNode(positive, significand) ==
    IF positive THEN NumNode([t |-> "u64", n |-> significand])
    ELSE IF significand # <<0>> /\ BigLeq(significand, I64MinMag)
    THEN NumNode([t |-> "i64", n |-> significand])
    ELSE FloatNode([U64AsF64(significand) EXCEPT !.neg = TRUE])

\* the significand with the digits of d it takes in
TakeDigits(significand, d) ==
    Norm(significand \o SubSeq(d, 1, Taken(significand, d)))

\* the exponent as written, beyond a million taken as a million
ExponentOf(exp) == IF Len(exp) > 6 THEN 1000000 ELSE IntOf(exp)

\* parse_exponent, and the end of a number that has none: exponent counts
\* the digits that the significand has not taken in, float says that the
\* number has a fraction or more digits than the significand holds
JExponent(positive, significand, exponent, float, hasExp, expNegative, exp) ==
    IF hasExp /\ BigLess(I32Max, exp)
    THEN (IF significand # <<0>> /\ ~expNegative
          THEN Leaf("num", FALSE, VNull)
          ELSE FloatNode(F64(~positive, <<0>>, 0)))
    ELSE IF hasExp
    THEN FloatNode(f64_from_parts(positive, significand,
                                  IF expNegative THEN exponent - ExponentOf(exp)
                                  ELSE exponent + ExponentOf(exp)))
    ELSE IF float
    THEN FloatNode(f64_from_parts(positive, significand, exponent))
    ELSE IntegerNode(positive, significand)

\* parse_decimal: left digits of the integer part were not taken in
JDecimal(positive, significand, left, hasFrac, frac, hasExp, expNegative, exp) ==
    JExponent(positive, TakeDigits(significand, frac),
              left - Taken(significand, frac), hasFrac \/ left > 0,
              hasExp, expNegative, Norm(exp))

\* parse_integer and what it goes on to: int, frac and exp are the digits
\* of the three parts as written
NumberNode(positive, int, hasFrac, frac, hasExp, expNegative, exp) ==
    JDecimal(positive, TakeDigits(<<0>>, int), Len(int) - Taken(<<0>>, int),
             hasFrac, frac, hasExp, expNegative, exp)

\* where the integer part that starts at i0 ends: a 0 stands alone
IntEnd(s, i0) ==
    IF i0 <= Len(s) /\ s[i0] = "0" THEN i0 + 1 ELSE FirstNotIn(s, i0, Digits)

\* where the fraction ends, if a point stands at intEnd
FracEnd(s, intEnd) ==
    IF intEnd <= Len(s) /\ s[intEnd] = "."
    THEN FirstNotIn(s, intEnd + 1, Digits) ELSE intEnd

\* where the digits of the exponent start: behind the e and its sign
ExpStart(s, fracEnd) ==
    IF fracEnd + 1 <= Len(s) /\ s[fracEnd + 1] \in {"+", "-"}
    THEN fracEnd + 2 ELSE fracEnd + 1

\* where the exponent ends, if an e stands at fracEnd
ExpEnd(s, fracEnd) ==
    IF fracEnd <= Len(s) /\ s[fracEnd] \in {"e", "E"}
    THEN FirstNotIn(s, ExpStart(s, fracEnd), Digits) ELSE fracEnd

\* the places of a number whose integer part is at.i0 .. at.intEnd - 1
WithFraction(s, at) ==
    [i0 |-> at.i0, intEnd |-> at.intEnd, fracEnd |-> FracEnd(s, at.intEnd)]

WithExponent(s, at) ==
    [i0 |-> at.i0, intEnd |-> at.intEnd, fracEnd |-> at.fracEnd,
     e0 |-> ExpStart(s, at.fracEnd), expEnd |-> ExpEnd(s, at.fracEnd)]

NumberPlaces(s, i0) ==
    WithExponent(s, WithFraction(s, [i0 |-> i0, intEnd |-> IntEnd(s, i0)]))

\* the number that starts at q and has its parts at the places at
NumberAt(s, q, at) ==
    LET n == Len(s)
        hasFrac == at.fracEnd > at.intEnd
        hasExp == at.expEnd > at.fracEnd
    IN  IF at.intEnd = at.i0 THEN JFail
        ELSE IF s[at.i0] = "0" /\ at.intEnd <= n /\ s[at.intEnd] \in Digits THEN JFail
        ELSE IF hasFrac /\ at.fracEnd = at.intEnd + 1 THEN JFail
        ELSE IF hasExp /\ at.expEnd = at.e0 THEN JFail
        ELSE JOk(at.expEnd,
                 NumberNode(s[q] # "-", DigitRun(s, at.i0, at.intEnd),
                            hasFrac, DigitRun(s, at.intEnd + 1, at.fracEnd),
                            hasExp, hasExp /\ s[at.e0 - 1] = "-",
                            IF hasExp THEN DigitRun(s, at.e0, at.expEnd) ELSE <<>>))

\* a number that starts at q, where a minus sign or a digit stands
JNumber(s, q) == NumberAt(s, q, NumberPlaces(s, IF s[q] = "-" THEN q + 1 ELSE q))

\* parse_ident: the letters of null, true or false from p on
JLiteral(s, p) ==
    LET is(word) == p + Len(word) - 1 <= Len(s) /\ SubSeq(s, p, p + Len(word) - 1) = word
    IN  IF is(<<"n", "u", "l", "l">>) THEN JOk(p + 4, Leaf("null", TRUE, VNull))
        ELSE IF is(<<"t", "r", "u", "e">>)
        THEN JOk(p + 4, Leaf("bool", TRUE, [t |-> "bool", b |-> TRUE]))
        ELSE IF is(<<"f", "a", "l", "s", "e">>)
        THEN JOk(p + 5, Leaf("bool", TRUE, [t |-> "bool", b |-> FALSE]))
        ELSE JFail

HexChars ==
    Digits \cup {"a", "b", "c", "d", "e", "f", "A", "B", "C", "D", "E", "F"}

HexVal(c) ==
    IF c \in Digits THEN DigitVal(c)
    ELSE IF ByteVal(c) >= 97 THEN ByteVal(c) - 87
    ELSE ByteVal(c) - 55

\* four hexadecimal digits stand from p on
IsHex4(s, p) == p + 3 <= Len(s) /\ \A i \in p..(p + 3) : s[i] \in HexChars

\* decode_hex_escape
Hex4(s, p) ==
    4096 * HexVal(s[p]) + 256 * HexVal(s[p + 1]) + 16 * HexVal(s[p + 2]) + HexVal(s[p + 3])

\* the reader: ph is "value" (a value is to come), "str" (inside a string
\* literal), "after" (the value cur is complete), "done" or "fail"; p is
\* the next byte to read; stk holds the containers that are open, each
\* with what it has got so far; buf is the scratch of the string being read
\* and bok says that it met no lone surrogate
JInit ==
    [ph |-> "value", p |-> 1, stk |-> <<>>, cur |-> Leaf("null", TRUE, VNull),
     buf |-> <<>>, bok |-> TRUE]

JFailed(st) == [st EXCEPT !.ph = "fail"]

\* a value is complete and the reader stands at p
Deliver(st, node, p) == [st EXCEPT !.ph = "after", !.cur = node, !.p = p]

\* a string literal opens: p is the byte behind the quote
OpenString(st, p) == [st EXCEPT !.ph = "str", !.p = p, !.buf = <<>>, !.bok = TRUE]

Frame(t) == [t |-> t, keys |-> <<>>, kok |-> TRUE, vals |-> <<>>, want |-> t = "obj"]

\* a number or a literal has been read, or has failed
Delivered(st, r) == IF r.ok THEN Deliver(st, r.val, r.pos) ELSE JFailed(st)

\* behind [, the reader standing at q2 after the white space
OpenArray(s, st, q2) ==
    IF q2 <= Len(s) /\ s[q2] = "]" THEN Deliver(st, ArrNode(<<>>), q2 + 1)
    ELSE [st EXCEPT !.stk = Append(@, Frame("arr")), !.p = q2]

\* behind {, the reader standing at q2 after the white space
OpenObject(s, st, q2) ==
    IF q2 <= Len(s) /\ s[q2] = "}"
    THEN Deliver(st, ObjNode(<<>>, TRUE, <<>>), q2 + 1)
    ELSE IF q2 <= Len(s) /\ s[q2] = "\""
    THEN OpenString([st EXCEPT !.stk = Append(@, Frame("obj"))], q2 + 1)
    ELSE JFailed(st)

\* parse_value, the reader standing at q after the white space
ValueAt(s, st, q) ==
    IF q > Len(s) THEN JFailed(st)
    ELSE IF s[q] = "\"" THEN OpenString(st, q + 1)
    ELSE IF s[q] = "-" \/ s[q] \in Digits THEN Delivered(st, JNumber(s, q))
    ELSE IF s[q] \in {"n", "t", "f"} THEN Delivered(st, JLiteral(s, q))
    ELSE IF s[q] = "[" THEN OpenArray(s, st, JSkip(s, q + 1))
    ELSE IF s[q] = "{" THEN OpenObject(s, st, JSkip(s, q + 1))
    ELSE JFailed(st)

StepValue(s, st) == ValueAt(s, st, JSkip(s, st.p))

\* the character c has been decoded: it joins buf, the reader stands at p
Decoded(st, c, p) == [st EXCEPT !.buf = @ \o encode_utf8(c), !.p = p]

\* behind \uXXXX with n1 a leading surrogate, the reader standing at p: n2
\* is what the escape that follows stands for, if one follows
Surrogates(st, n1, follows, n2, p) ==
    IF follows /\ 56320 <= n2 /\ n2 <= 57343
    THEN Decoded(st, 65536 + 1024 * (n1 - 55296) + (n2 - 56320), p + 6)
    ELSE [st EXCEPT !.bok = FALSE, !.p = p]

\* behind \uXXXX, which stands for n1, the reader standing at p
Unicode(s, st, n1, p) ==
    IF n1 < 55296 \/ n1 > 57343 THEN Decoded(st, n1, p)
    ELSE IF n1 <= 56319
    THEN Surrogates(st, n1,
                    /\ p + 1 <= Len(s) /\ s[p] = "\\" /\ s[p + 1] = "u"
                    /\ IsHex4(s, p + 2),
                    Hex4(s, p + 2), p)
    ELSE [st EXCEPT !.bok = FALSE, !.p = p]

\* parse_escape, the reader standing behind the backslash
Escape(s, st) ==
    LET p == st.p
        put(bytes) == [st EXCEPT !.buf = @ \o bytes, !.p = p + 1]
    IN  IF p > Len(s) THEN JFailed(st)
        ELSE IF s[p] \in {"\"", "\\", "/"} THEN put(<<s[p]>>)
        ELSE IF s[p] = "b" THEN put(<<"08">>)
        ELSE IF s[p] = "f" THEN put(<<"\f">>)
        ELSE IF s[p] = "n" THEN put(<<"\n">>)
        ELSE IF s[p] = "r" THEN put(<<"\r">>)
        ELSE IF s[p] = "t" THEN put(<<"\t">>)
        ELSE IF s[p] = "u" /\ IsHex4(s, p + 1)
        THEN Unicode(s, st, Hex4(s, p + 1), p + 5)
        ELSE JFailed(st)

\* the closing quote has been read
StringRead(s, st, valid) ==
    LET top == Len(st.stk)
        q == JSkip(s, st.p)
    IN  IF top > 0 /\ st.stk[top].want
        THEN (IF q <= Len(s) /\ s[q] = ":"
              THEN [st EXCEPT !.ph = "value", !.p = q + 1,
                              !.stk[top].keys = Append(@, st.buf),
                              !.stk[top].kok = @ /\ valid,
                              !.stk[top].want = FALSE]
              ELSE JFailed(st))
        ELSE Deliver(st, Leaf("str", valid, [t |-> "str", s |-> st.buf]), st.p)

StringDone(s, st) == StringRead(s, st, st.bok /\ from_utf8_ok(st.buf))

\* one round of the loop of parse_str: the bytes up to the next quote,
\* backslash or control character are taken as they are
StepStr(s, st) ==
    LET r == FirstIn(s, st.p, {"\"", "\\"} \cup Controls)
        got == [st EXCEPT !.buf = @ \o SubSeq(s, st.p, r - 1), !.p = r + 1]
    IN  IF r > Len(s) THEN JFailed(st)
        ELSE IF s[r] = "\"" THEN StringDone(s, got)
        ELSE IF s[r] = "\\" THEN Escape(s, got)
        ELSE JFailed(st)

\* a value is complete: it is the document, or it joins the container that
\* is open, behind which a comma or the closing bracket must come
StepAfter(s, st) ==
    LET top == Len(st.stk)
        q == JSkip(s, st.p)
    IN  IF top = 0 THEN [st EXCEPT !.ph = "done"]
        ELSE LET f == st.stk[top]
                 vals == Append(f.vals, st.cur)
             IN  IF q > Len(s) THEN JFailed(st)
                 ELSE IF f.t = "arr" /\ s[q] = ","
                 THEN [st EXCEPT !.ph = "value", !.p = q + 1, !.stk[top].vals = vals]
                 ELSE IF f.t = "arr" /\ s[q] = "]"
                 THEN [st EXCEPT !.cur = ArrNode(vals), !.p = q + 1,
                                 !.stk = SubSeq(@, 1, top - 1)]
                 ELSE IF f.t = "obj" /\ s[q] = ","
                 THEN LET q2 == JSkip(s, q + 1)
                      IN  IF q2 <= Len(s) /\ s[q2] = "\""
                          THEN OpenString([st EXCEPT !.stk[top].vals = vals,
                                                     !.stk[top].want = TRUE], q2 + 1)
                          ELSE JFailed(st)
                 ELSE IF f.t = "obj" /\ s[q] = "}"
                 THEN [st EXCEPT !.cur = ObjNode(f.keys, f.kok, vals), !.p = q + 1,
                                 !.stk = SubSeq(@, 1, top - 1)]
                 ELSE JFailed(st)

JStep(s, st) ==
    IF st.ph = "value" THEN StepValue(s, st)
    ELSE IF st.ph = "str" THEN StepStr(s, st)
    ELSE IF st.ph = "after" THEN StepAfter(s, st)
    ELSE st

\* n steps of the reader
RECURSIVE JRun(_, _, _)
JRun(s, st, n) ==
    IF n = 0 THEN st
    ELSE IF n = 1 THEN JStep(s, st)
    ELSE LET h == JRun(s, st, n \div 2)
         IN  IF h.ph \in {"done", "fail"} THEN h ELSE JRun(s, h, n - (n \div 2))

\* end(): behind the value nothing but white space may stand
JEnd(s, st) ==
    IF st.ph = "done" /\ JSkip(s, st.p) > Len(s) THEN JOk(st.p, st.cur) ELSE JFail

\* the whole text is one value, white space around it allowed
JDocument(s) == JEnd(s, JRun(s, JInit, Len(s) + 2))

\* Deserializer::deserialize_any into a Value, depth containers being open
\* already: remaining_depth starts at 128 and may not reach 0
IsValue(node, depth) == node.ok /\ depth + node.h < 128

\* the value of the document d, if it is one within the recursion limit
ValueOf(d) ==
    IF d.ok /\ IsValue(d.val, 0) THEN [ok |-> TRUE, val |-> d.val.v]
    ELSE [ok |-> FALSE, val |-> <<>>]

\* serde_json::from_str::<Value>(s)
from_str(s) == ValueOf(JDocument(s))

----------------------------------------------------------------------------
(* Result<T, E>; an error is the name of its variant *)

Ok(v) == [ok |-> TRUE, val |-> v]
Err(kind) == [ok |-> FALSE, err |-> kind]

Range(f) == {f[x] : x \in DOMAIN f}

----------------------------------------------------------------------------
(* The Authorization header.  chat_completion and chat_completion_stream   *)
(* build it from the key of the client and unwrap() the result: a key that *)
(* is no header value makes the call panic before a request is sent.       *)

\* HeaderValue::from_str(src): every byte is a tab, or is 0x20 or above and
\* not 0x7F
HeaderValue_from_str(src) ==
    IF \A i \in 1..Len(src) :
          src[i] = "\t" \/ (ByteVal(src[i]) >= 32 /\ ByteVal(src[i]) # 127)
    THEN Ok(src)
    ELSE Err("InvalidHeaderValue")

Bearer == <<"B", "e", "a", "r", "e", "r", " ">>

\* HeaderValue::from_str(&format!("Bearer {}", self.api_key))
Authorization(key) == HeaderValue_from_str(Bearer \o key)

\* keys: two that are header values, the second with a tab and a byte
\* above 0x7F, and keys with a line feed (a key read from a file with its
\* line end), a carriage return, a NUL, an ESC and a DEL
ApiKeys ==
    {<<"s", "k">>, <<"s", "\t", "C3", "A9">>, <<"k", "\n">>, <<"k", "\r">>,
     <<"00">>, <<"1B", "k">>, <<"k", "7F">>}

\* one key of each kind, for the larger explorations
FewKeys == {<<"s", "k">>, <<"k", "\n">>}

----------------------------------------------------------------------------
----------------------------------------------------------------------------
(* #[derive(Deserialize)]: a node taken as a DTO.  What serde_json reads   *)
(* into a field of a struct is decided by the type of the field; a member  *)
(* whose key names no field is skipped (IgnoredAny).                       *)

\* the field is not in the object
Absent == Leaf("absent", TRUE, VNull)

\* deserialize_struct: an object whose keys are strings that can be read
\* and that names no field twice (visit_map), or an array of as many
\* elements as the struct has fields (visit_seq)
IsStruct(node, names) ==
    \/ /\ node.t = "obj"
       /\ node.kok
       /\ \A a, b \in 1..Len(node.keys) :
            node.keys[a] = node.keys[b] /\ node.keys[a] \in Range(names) => a = b
    \/ node.t = "arr" /\ Len(node.vals) = Len(names)

\* what stands for the field name of a struct with the fields names
Field(node, names, name) ==
    IF node.t = "arr"
    THEN node.vals[CHOOSE i \in 1..Len(names) : names[i] = name]
    ELSE LET at == {i \in 1..Len(node.keys) : node.keys[i] = name}
         IN  IF at = {} THEN Absent ELSE node.vals[Least(at)]

\* Option<T>: None when the field is missing or null
IsNone(f) == f.t \in {"absent", "null"}

\* String
IsString(f) == f.t = "str" /\ f.ok

\* Option<String>
IsOptString(f) == IsNone(f) \/ IsString(f)

OptString(f) == IF IsNone(f) THEN None ELSE Some(f.v.s)

\* i64, i32, usize: an integer, not a float, that the type holds
IsI64(f) ==
    /\ f.t = "num" /\ f.ok
    /\ f.v.t = "i64" \/ (f.v.t = "u64" /\ BigLeq(f.v.n, I64Max))

IsI32(f) ==
    /\ f.t = "num" /\ f.ok
    /\ \/ f.v.t = "u64" /\ BigLeq(f.v.n, I32Max)
       \/ f.v.t = "i64" /\ BigLeq(f.v.n, BigAdd(I32Max, <<1>>))

IsUsize(f) == f.t = "num" /\ f.ok /\ f.v.t = "u64"

\* a signed integer: its sign and its magnitude
SignedOf(f) == [neg |-> f.v.t = "i64", n |-> f.v.n]

\* an enum of unit variants: the name of a variant as a string, or an
\* object whose one member has the name for its key and null for its value
IsVariant(f, names) ==
    \/ IsString(f) /\ f.v.s \in names
    \/ /\ f.t = "obj" /\ f.kok /\ Len(f.keys) = 1
       /\ f.keys[1] \in names
       /\ f.vals[1].t = "null"

VariantOf(f) == IF f.t = "str" THEN f.v.s ELSE f.keys[1]

IsOptVariant(f, names) == IsNone(f) \/ IsVariant(f, names)

OptVariant(f) == IF IsNone(f) THEN None ELSE Some(VariantOf(f))

K_id == <<"i", "d">>
K_object == <<"o", "b", "j", "e", "c", "t">>
K_created == <<"c", "r", "e", "a", "t", "e", "d">>
K_model == <<"m", "o", "d", "e", "l">>
K_choices == <<"c", "h", "o", "i", "c", "e", "s">>
K_index == <<"i", "n", "d", "e", "x">>
K_delta == <<"d", "e", "l", "t", "a">>
K_finish_reason ==
    <<"f", "i", "n", "i", "s", "h", "_", "r", "e", "a", "s", "o", "n">>
K_role == <<"r", "o", "l", "e">>
K_content == <<"c", "o", "n", "t", "e", "n", "t">>
K_tool_calls == <<"t", "o", "o", "l", "_", "c", "a", "l", "l", "s">>
K_type == <<"t", "y", "p", "e">>
K_function == <<"f", "u", "n", "c", "t", "i", "o", "n">>
K_name == <<"n", "a", "m", "e">>
K_arguments == <<"a", "r", "g", "u", "m", "e", "n", "t", "s">>

\* FinishReason, rename_all = "snake_case": a variant is its name
Stop == <<"s", "t", "o", "p">>
Length == <<"l", "e", "n", "g", "t", "h">>
ContentFilter == <<"c", "o", "n", "t", "e", "n", "t", "_", "f", "i", "l", "t", "e", "r">>
ToolCalls == <<"t", "o", "o", "l", "_", "c", "a", "l", "l", "s">>

FinishReasons == {Stop, Length, ContentFilter, ToolCalls}

\* MessageRole, rename_all = "snake_case"
MessageRoleNames ==
    {<<"u", "s", "e", "r">>,
     <<"s", "y", "s", "t", "e", "m">>,
     <<"a", "s", "s", "i", "s", "t", "a", "n", "t">>,
     K_function,
     <<"t", "o", "o", "l">>}

\* ToolCallFunctionDelta
FunctionDeltaFields == <<K_name, K_arguments>>

IsFunctionDelta(f) ==
    /\ IsStruct(f, FunctionDeltaFields)
    /\ IsOptString(Field(f, FunctionDeltaFields, K_name))
    /\ IsOptString(Field(f, FunctionDeltaFields, K_arguments))

FunctionDeltaOf(f) ==
    [name |-> OptString(Field(f, FunctionDeltaFields, K_name)),
     arguments |-> OptString(Field(f, FunctionDeltaFields, K_arguments))]

\* ToolCallDelta
ToolCallDeltaFields == <<K_index, K_id, K_type, K_function>>

IsToolCallDelta(t) ==
    /\ IsStruct(t, ToolCallDeltaFields)
    /\ IsUsize(Field(t, ToolCallDeltaFields, K_index))
    /\ IsOptString(Field(t, ToolCallDeltaFields, K_id))
    /\ IsOptString(Field(t, ToolCallDeltaFields, K_type))
    /\ LET f == Field(t, ToolCallDeltaFields, K_function)
       IN  IsNone(f) \/ IsFunctionDelta(f)

ToolCallDeltaOf(t) ==
    [index |-> Field(t, ToolCallDeltaFields, K_index).v.n,
     id |-> OptString(Field(t, ToolCallDeltaFields, K_id)),
     type |-> OptString(Field(t, ToolCallDeltaFields, K_type)),
     function |-> LET f == Field(t, ToolCallDeltaFields, K_function)
                  IN  IF IsNone(f) THEN None ELSE Some(FunctionDeltaOf(f))]

\* ChatCompletionMessageDelta
DeltaFields == <<K_role, K_content, K_tool_calls>>

IsDelta(d) ==
    /\ IsStruct(d, DeltaFields)
    /\ IsOptVariant(Field(d, DeltaFields, K_role), MessageRoleNames)
    /\ IsOptString(Field(d, DeltaFields, K_content))
    /\ LET c == Field(d, DeltaFields, K_tool_calls)
       IN  \/ IsNone(c)
           \/ /\ c.t = "arr"
              /\ \A i \in 1..Len(c.vals) : IsToolCallDelta(c.vals[i])

DeltaOf(d) ==
    [role |-> OptVariant(Field(d, DeltaFields, K_role)),
     content |-> OptString(Field(d, DeltaFields, K_content)),
     tool_calls |-> LET c == Field(d, DeltaFields, K_tool_calls)
                    IN  IF IsNone(c) THEN None
                        ELSE Some([i \in 1..Len(c.vals) |-> ToolCallDeltaOf(c.vals[i])])]

\* ChatCompletionChunkChoice
ChunkChoiceFields == <<K_index, K_delta, K_finish_reason>>

IsChunkChoice(c) ==
    /\ IsStruct(c, ChunkChoiceFields)
    /\ IsI64(Field(c, ChunkChoiceFields, K_index))
    /\ IsDelta(Field(c, ChunkChoiceFields, K_delta))
    /\ IsOptVariant(Field(c, ChunkChoiceFields, K_finish_reason), FinishReasons)

ChunkChoiceOf(c) ==
    [index |-> SignedOf(Field(c, ChunkChoiceFields, K_index)),
     delta |-> DeltaOf(Field(c, ChunkChoiceFields, K_delta)),
     finish_reason |-> OptVariant(Field(c, ChunkChoiceFields, K_finish_reason))]

\* ChatCompletionChunkResponse
ChunkResponseFields == <<K_id, K_object, K_created, K_model, K_choices>>

IsChunkResponse(v) ==
    /\ IsStruct(v, ChunkResponseFields)
    /\ IsOptString(Field(v, ChunkResponseFields, K_id))
    /\ IsString(Field(v, ChunkResponseFields, K_object))
    /\ IsI64(Field(v, ChunkResponseFields, K_created))
    /\ IsString(Field(v, ChunkResponseFields, K_model))
    /\ LET c == Field(v, ChunkResponseFields, K_choices)
       IN  c.t = "arr" /\ \A i \in 1..Len(c.vals) : IsChunkChoice(c.vals[i])

ChunkResponseOf(v) ==
    [id |-> OptString(Field(v, ChunkResponseFields, K_id)),
     object |-> Field(v, ChunkResponseFields, K_object).v.s,
     created |-> SignedOf(Field(v, ChunkResponseFields, K_created)),
     model |-> Field(v, ChunkResponseFields, K_model).v.s,
     choices |-> LET c == Field(v, ChunkResponseFields, K_choices)
                 IN  [i \in 1..Len(c.vals) |-> ChunkChoiceOf(c.vals[i])]]

\* the document d as a ChatCompletionChunkResponse
ChunkOf(d) ==
    IF d.ok /\ IsChunkResponse(d.val)
    THEN [ok |-> TRUE, chunk |-> ChunkResponseOf(d.val)]
    ELSE Err("Serde")

\* serde_json::from_str(data): Ok(chunk) or Err(Serde)
chunk_from_str(data) == ChunkOf(JDocument(data))

----------------------------------------------------------------------------
----------------------------------------------------------------------------
(* The DTOs of the chat completion response (api_v1/chat_completion.rs,    *)
(* tools.rs, common.rs)                                                    *)

K_message == <<"m", "e", "s", "s", "a", "g", "e">>
K_usage == <<"u", "s", "a", "g", "e">>
K_system_fingerprint ==
    <<"s", "y", "s", "t", "e", "m", "_", "f", "i", "n", "g", "e", "r", "p", "r", "i", "n", "t">>
K_reasoning_content ==
    <<"r", "e", "a", "s", "o", "n", "i", "n", "g", "_", "c", "o", "n", "t", "e", "n", "t">>
K_tool_call_id == <<"t", "o", "o", "l", "_", "c", "a", "l", "l", "_", "i", "d">>
K_finish_details ==
    <<"f", "i", "n", "i", "s", "h", "_", "d", "e", "t", "a", "i", "l", "s">>
K_stop == <<"s", "t", "o", "p">>
K_prompt_tokens == <<"p", "r", "o", "m", "p", "t", "_", "t", "o", "k", "e", "n", "s">>
K_completion_tokens ==
    <<"c", "o", "m", "p", "l", "e", "t", "i", "o", "n", "_", "t", "o", "k", "e", "n", "s">>
K_total_tokens == <<"t", "o", "t", "a", "l", "_", "t", "o", "k", "e", "n", "s">>

\* ToolType, rename_all = "snake_case"
ToolTypeNames == {K_function}

\* ToolCallFunction: arguments is a serde_json::Value, read with the
\* containers around it open
ToolCallFunctionFields == <<K_name, K_arguments>>

IsToolCallFunction(f, depth) ==
    /\ IsStruct(f, ToolCallFunctionFields)
    /\ IsString(Field(f, ToolCallFunctionFields, K_name))
    /\ LET a == Field(f, ToolCallFunctionFields, K_arguments)
       IN  a.t # "absent" /\ IsValue(a, depth + 1)

ToolCallFunctionOf(f) ==
    [name |-> Field(f, ToolCallFunctionFields, K_name).v.s,
     arguments |-> Field(f, ToolCallFunctionFields, K_arguments).v]

\* ToolCall
ToolCallFields == <<K_id, K_function, K_type>>

IsToolCall(t, depth) ==
    /\ IsStruct(t, ToolCallFields)
    /\ IsString(Field(t, ToolCallFields, K_id))
    /\ IsToolCallFunction(Field(t, ToolCallFields, K_function), depth + 1)
    /\ IsVariant(Field(t, ToolCallFields, K_type), ToolTypeNames)

ToolCallOf(t) ==
    [id |-> Field(t, ToolCallFields, K_id).v.s,
     function |-> ToolCallFunctionOf(Field(t, ToolCallFields, K_function)),
     type |-> VariantOf(Field(t, ToolCallFields, K_type))]

\* ChatCompletionMessageForResponse
MessageForResponseFields ==
    <<K_role, K_content, K_reasoning_content, K_tool_calls, K_tool_call_id, K_name>>

IsMessageForResponse(m, depth) ==
    /\ IsStruct(m, MessageForResponseFields)
    /\ IsVariant(Field(m, MessageForResponseFields, K_role), MessageRoleNames)
    /\ IsOptString(Field(m, MessageForResponseFields, K_content))
    /\ IsOptString(Field(m, MessageForResponseFields, K_reasoning_content))
    /\ LET c == Field(m, MessageForResponseFields, K_tool_calls)
       IN  \/ IsNone(c)
           \/ /\ c.t = "arr"
              /\ \A i \in 1..Len(c.vals) : IsToolCall(c.vals[i], depth + 2)
    /\ IsOptString(Field(m, MessageForResponseFields, K_tool_call_id))
    /\ IsOptString(Field(m, MessageForResponseFields, K_name))

MessageForResponseOf(m) ==
    [role |-> VariantOf(Field(m, MessageForResponseFields, K_role)),
     content |-> OptString(Field(m, MessageForResponseFields, K_content)),
     reasoning_content |-> OptString(Field(m, MessageForResponseFields, K_reasoning_content)),
     tool_calls |-> LET c == Field(m, MessageForResponseFields, K_tool_calls)
                    IN  IF IsNone(c) THEN None
                        ELSE Some([i \in 1..Len(c.vals) |-> ToolCallOf(c.vals[i])]),
     tool_call_id |-> OptString(Field(m, MessageForResponseFields, K_tool_call_id)),
     name |-> OptString(Field(m, MessageForResponseFields, K_name))]

\* FinishDetails
FinishDetailsFields == <<K_type, K_stop>>

IsFinishDetails(f) ==
    /\ IsStruct(f, FinishDetailsFields)
    /\ IsVariant(Field(f, FinishDetailsFields, K_type), FinishReasons)
    /\ IsString(Field(f, FinishDetailsFields, K_stop))

FinishDetailsOf(f) ==
    [type |-> VariantOf(Field(f, FinishDetailsFields, K_type)),
     stop |-> Field(f, FinishDetailsFields, K_stop).v.s]

\* ChatCompletionChoice
ChatChoiceFields == <<K_index, K_message, K_finish_reason, K_finish_details>>

IsChatChoice(c, depth) ==
    /\ IsStruct(c, ChatChoiceFields)
    /\ IsI64(Field(c, ChatChoiceFields, K_index))
    /\ IsMessageForResponse(Field(c, ChatChoiceFields, K_message), depth + 1)
    /\ IsOptVariant(Field(c, ChatChoiceFields, K_finish_reason), FinishReasons)
    /\ LET f == Field(c, ChatChoiceFields, K_finish_details)
       IN  IsNone(f) \/ IsFinishDetails(f)

ChatChoiceOf(c) ==
    [index |-> SignedOf(Field(c, ChatChoiceFields, K_index)),
     message |-> MessageForResponseOf(Field(c, ChatChoiceFields, K_message)),
     finish_reason |-> OptVariant(Field(c, ChatChoiceFields, K_finish_reason)),
     finish_details |-> LET f == Field(c, ChatChoiceFields, K_finish_details)
                        IN  IF IsNone(f) THEN None ELSE Some(FinishDetailsOf(f))]

\* Usage
UsageFields == <<K_prompt_tokens, K_completion_tokens, K_total_tokens>>

IsUsage(u) ==
    /\ IsStruct(u, UsageFields)
    /\ \A i \in 1..3 : IsI32(Field(u, UsageFields, UsageFields[i]))

UsageOf(u) ==
    [prompt_tokens |-> SignedOf(Field(u, UsageFields, K_prompt_tokens)),
     completion_tokens |-> SignedOf(Field(u, UsageFields, K_completion_tokens)),
     total_tokens |-> SignedOf(Field(u, UsageFields, K_total_tokens))]

\* ChatCompletionResponse
ChatCompletionResponseFields ==
    <<K_id, K_object, K_created, K_model, K_choices, K_usage, K_system_fingerprint>>

IsChatCompletionResponse(v) ==
    /\ IsStruct(v, ChatCompletionResponseFields)
    /\ IsOptString(Field(v, ChatCompletionResponseFields, K_id))
    /\ IsString(Field(v, ChatCompletionResponseFields, K_object))
    /\ IsI64(Field(v, ChatCompletionResponseFields, K_created))
    /\ IsString(Field(v, ChatCompletionResponseFields, K_model))
    /\ LET c == Field(v, ChatCompletionResponseFields, K_choices)
       IN  c.t = "arr" /\ \A i \in 1..Len(c.vals) : IsChatChoice(c.vals[i], 2)
    /\ IsUsage(Field(v, ChatCompletionResponseFields, K_usage))
    /\ IsOptString(Field(v, ChatCompletionResponseFields, K_system_fingerprint))

ChatCompletionResponseOf(v) ==
    [id |-> OptString(Field(v, ChatCompletionResponseFields, K_id)),
     object |-> Field(v, ChatCompletionResponseFields, K_object).v.s,
     created |-> SignedOf(Field(v, ChatCompletionResponseFields, K_created)),
     model |-> Field(v, ChatCompletionResponseFields, K_model).v.s,
     choices |-> LET c == Field(v, ChatCompletionResponseFields, K_choices)
                 IN  [i \in 1..Len(c.vals) |-> ChatChoiceOf(c.vals[i])],
     usage |-> UsageOf(Field(v, ChatCompletionResponseFields, K_usage)),
     system_fingerprint |-> OptString(Field(v, ChatCompletionResponseFields, K_system_fingerprint))]

\* the document d as a ChatCompletionResponse
ResponseOf(d) ==
    IF d.ok /\ IsChatCompletionResponse(d.val)
    THEN Ok(ChatCompletionResponseOf(d.val))
    ELSE Err([error |-> "Serde"])

\* serde_json::from_slice(&bytes): Ok(response) or Err(Serde)
response_from_slice(bytes) == ResponseOf(JDocument(bytes))

----------------------------------------------------------------------------
(* StreamEvent and the error item *)

TextDelta(t) == [kind |-> "TextDelta", text |-> t]
ToolCallStart(i, id, name) ==
    [kind |-> "ToolCallStart", index |-> i, id |-> id, name |-> name]
ToolCallArgumentsDelta(i, f) ==
    [kind |-> "ToolCallArgumentsDelta", index |-> i, arguments_fragment |-> f]
ToolCallComplete(i, id, name, args) ==
    [kind |-> "ToolCallComplete", index |-> i, id |-> id, name |-> name,
     arguments |-> args]
MessageEnd == [kind |-> "MessageEnd"]
ErrItem(e) == [kind |-> "Err", error |-> e]

----------------------------------------------------------------------------
(* Chunk DTOs (api_v1/chat_completion_stream.rs), the fields the loop reads *)

Fn(name, arguments) == [name |-> name, arguments |-> arguments]
Tc(i, id, function) == [index |-> i, id |-> id, function |-> function]
Choice(i, content, tool_calls, finish_reason) ==
    [index |-> i, content |-> content, tool_calls |-> tool_calls,
     finish_reason |-> finish_reason]
Chunk(choices) == [item |-> "chunk", choices |-> choices]


----------------------------------------------------------------------------
(* The loop body of chat_complete_events_stream.  The generator's state is *)
(* the record st: the items yielded, the two maps, and live, which turns   *)
(* FALSE when the generator returns.  A generator runs inside a poll of    *)
(* its consumer and is suspended at each yield: made counts the yields of  *)
(* the run, stop is the yield the run goes up to (0: to the end of the     *)
(* loop body) and susp says that the generator is suspended there, with    *)
(* what comes behind that yield not done.  A `?` on an error yields the    *)
(* error and returns when the generator is resumed.                        *)

\* yield ev
Yield(st, ev) ==
    [st EXCEPT !.out = Append(@, ev), !.made = @ + 1,
               !.susp = (st.made + 1 = st.stop)]

\* return, behind a yield
Return(st) == IF st.susp THEN st ELSE [st EXCEPT !.live = FALSE]

\* tool_seen.entry(tc.index).or_insert((None, None))
EnsureEntry(st, tc) ==
    IF st.susp \/ tc.index \in DOMAIN st.tool_seen THEN st
    ELSE [st EXCEPT !.tool_seen = @ @@ (tc.index :> [id |-> None, name |-> None]),
                    !.seen_order = Append(@, tc.index)]

\* faulty variant of ApplyId: the entry.0.is_none() test is dropped, so every
\* fragment that carries an id announces the call again
ApplyIdAlways(st, tc) ==
    IF st.susp \/ ~IsSome(tc.id) THEN st
    ELSE LET entry == st.tool_seen[tc.index]
         IN  Yield([st EXCEPT !.tool_seen[tc.index].id = tc.id],
                   ToolCallStart(tc.index, tc.id, entry.name))

\* if let Some(id) = tc.id.clone() { ... }
ApplyId(st, tc) ==
    IF st.susp \/ ~IsSome(tc.id) THEN st
    ELSE LET entry == st.tool_seen[tc.index]
         IN  IF ~IsSome(entry.id)
             THEN Yield([st EXCEPT !.tool_seen[tc.index].id = tc.id],
                        ToolCallStart(tc.index, tc.id, entry.name))
             ELSE [st EXCEPT !.tool_seen[tc.index].id = tc.id]

\* if let Some(name) = func.name { ... }
ApplyName(st, tc) ==
    IF st.susp \/ ~IsSome(tc.function) THEN st
    ELSE IF ~IsSome(Unwrap(tc.function).name) THEN st
    ELSE LET entry == st.tool_seen[tc.index]
             name == Unwrap(tc.function).name
         IN  IF ~IsSome(entry.name)
             THEN Yield([st EXCEPT !.tool_seen[tc.index].name = name],
                        ToolCallStart(tc.index, entry.id, name))
             ELSE [st EXCEPT !.tool_seen[tc.index].name = name]

\* faulty variant of ApplyArguments: the fragment is assigned to the buffer
\* instead of being pushed onto it
ApplyArgumentsAssign(st, tc) ==
    IF st.susp \/ ~IsSome(tc.function) THEN st
    ELSE IF ~IsSome(Unwrap(tc.function).arguments) THEN st
    ELSE
        LET arguments == Unwrap(Unwrap(tc.function).arguments)
            assigned == [i \in (DOMAIN st.tool_args) \cup {tc.index} |->
                            IF i = tc.index THEN arguments ELSE st.tool_args[i]]
            s1 == [st EXCEPT !.tool_args = assigned]
        IN  IF arguments # <<>>
            THEN Yield(s1, ToolCallArgumentsDelta(tc.index, arguments))
            ELSE s1

\* faulty variant of ApplyArguments: the event carries the buffer, not the
\* fragment
ApplyArgumentsEmitBuffer(st, tc) ==
    IF st.susp \/ ~IsSome(tc.function) THEN st
    ELSE IF ~IsSome(Unwrap(tc.function).arguments) THEN st
    ELSE
        LET arguments == Unwrap(Unwrap(tc.function).arguments)
            old == IF tc.index \in DOMAIN st.tool_args
                   THEN st.tool_args[tc.index] ELSE <<>>
            pushed == [i \in (DOMAIN st.tool_args) \cup {tc.index} |->
                          IF i = tc.index THEN old \o arguments ELSE st.tool_args[i]]
            s1 == [st EXCEPT !.tool_args = pushed]
        IN  IF arguments # <<>>
            THEN Yield(s1, ToolCallArgumentsDelta(tc.index, old \o arguments))
            ELSE s1

\* if let Some(arguments) = func.arguments { ... }: the fragment is pushed
\* onto the buffer of the index, tool_args.entry(tc.index).or_default(), and
\* yielded unless it is empty
ApplyArguments(st, tc) ==
    IF st.susp \/ ~IsSome(tc.function) THEN st
    ELSE IF ~IsSome(Unwrap(tc.function).arguments) THEN st
    ELSE
        LET arguments == Unwrap(Unwrap(tc.function).arguments)
            old == IF tc.index \in DOMAIN st.tool_args
                   THEN st.tool_args[tc.index] ELSE <<>>
            pushed == [i \in (DOMAIN st.tool_args) \cup {tc.index} |->
                          IF i = tc.index THEN old \o arguments ELSE st.tool_args[i]]
            s1 == [st EXCEPT !.tool_args = pushed]
        IN  IF arguments # <<>>
            THEN Yield(s1, ToolCallArgumentsDelta(tc.index, arguments))
            ELSE s1

\* one iteration of `for tc in tool_calls`
HandleToolCall(st, tc) ==
    ApplyArguments(ApplyName(ApplyId(EnsureEntry(st, tc), tc), tc), tc)

RECURSIVE HandleToolCalls(_, _, _)
HandleToolCalls(st, tool_calls, k) ==
    IF k > Len(tool_calls) THEN st
    ELSE HandleToolCalls(HandleToolCall(st, tool_calls[k]), tool_calls, k + 1)

\* faulty variant of HandleContent: the is_empty() test is dropped
HandleContentEmptyToo(st, choice) ==
    IF ~st.susp /\ IsSome(choice.content)
    THEN Yield(st, TextDelta(Unwrap(choice.content)))
    ELSE st

\* if let Some(delta) = choice.delta.content && !delta.is_empty()
HandleContent(st, choice) ==
    IF ~st.susp /\ IsSome(choice.content) /\ Unwrap(choice.content) # <<>>
    THEN Yield(st, TextDelta(Unwrap(choice.content)))
    ELSE st

\* usize::to_string: the decimal digits
to_string(n) == [i \in 1..Len(BigOf(n)) |-> Bytes[48 + BigOf(n)[i]]]

\* faulty variant of PlaceholderId: the index is not part of the placeholder
PlaceholderIdFixed(index) ==
    <<"t", "o", "o", "l", "c", "a", "l", "l", "-", "0">>

\* format!("toolcall-{index}")
PlaceholderId(index) ==
    <<"t", "o", "o", "l", "c", "a", "l", "l", "-">> \o to_string(index)

\* faulty variant of FinalizeOne: a buffer that does not parse is passed over
\* instead of ending the stream with the error
FinalizeOneSkipBad(st, index) ==
    LET seen == IF index \in DOMAIN st.tool_seen
                THEN st.tool_seen[index] ELSE [id |-> None, name |-> None]
        name == IF IsSome(seen.name) THEN Unwrap(seen.name)
                ELSE <<"t", "o", "o", "l">>
        parsed == from_str(st.tool_args[index])
        id == IF IsSome(seen.id) THEN Unwrap(seen.id) ELSE PlaceholderId(index)
    IN  IF st.susp \/ ~parsed.ok
        THEN st
        ELSE Yield(st, ToolCallComplete(index, id, name, parsed.val))

\* tool_seen.get(index).cloned().unwrap_or((None, None))
SeenOf(st, index) ==
    IF index \in DOMAIN st.tool_seen
    THEN st.tool_seen[index] ELSE [id |-> None, name |-> None]

\* the buffer of index has been parsed: `?` on the error, or the
\* completion is yielded with the id and the name seen, or their defaults
Finalized(st, index, seen, parsed) ==
    IF ~parsed.ok
    THEN Return(Yield(st, ErrItem("Invalid")))
    ELSE Yield(st, ToolCallComplete(index,
                                    IF IsSome(seen.id) THEN Unwrap(seen.id)
                                    ELSE PlaceholderId(index),
                                    IF IsSome(seen.name) THEN Unwrap(seen.name)
                                    ELSE <<"t", "o", "o", "l">>,
                                    parsed.val))

\* one iteration of `for (index, buf) in tool_args.iter()`
FinalizeOne(st, index) ==
    IF st.susp THEN st
    ELSE Finalized(st, index, SeenOf(st, index), from_str(st.tool_args[index]))

\* faulty variant of FinishToolCalls: the `return` behind MessageEnd is missing
RECURSIVE FinishToolCallsNoReturn(_, _, _)
FinishToolCallsNoReturn(st, order, k) ==
    IF ~st.live \/ st.susp THEN st
    ELSE IF k > Len(order)
    THEN Yield(st, MessageEnd)
    ELSE IF order[k] \notin DOMAIN st.tool_args
    THEN FinishToolCallsNoReturn(st, order, k + 1)
    ELSE FinishToolCallsNoReturn(FinalizeOne(st, order[k]), order, k + 1)

\* FinishReason::ToolCalls.  order is the order in which this HashMap's
\* iterator visits the keys; the keys not in the map are passed over.
RECURSIVE FinishToolCalls(_, _, _)
FinishToolCalls(st, order, k) ==
    IF ~st.live \/ st.susp THEN st
    ELSE IF k > Len(order)
    THEN Return(Yield(st, MessageEnd))
    ELSE IF order[k] \notin DOMAIN st.tool_args
    THEN FinishToolCalls(st, order, k + 1)
    ELSE FinishToolCalls(FinalizeOne(st, order[k]), order, k + 1)

\* FinishReason::Stop | Length | ContentFilter
FinishOther(st) ==
    IF st.susp THEN st ELSE Return(Yield(st, MessageEnd))

\* faulty variant of HandleFinish: every terminal reason takes the tool_calls
\* branch
HandleFinishAlwaysFinalize(st, choice, order) ==
    IF ~IsSome(choice.finish_reason) THEN st
    ELSE FinishToolCalls(st, order, 1)

\* if let Some(reason) = choice.finish_reason { match reason { ... } }
HandleFinish(st, choice, order) ==
    IF ~IsSome(choice.finish_reason) THEN st
    ELSE IF Unwrap(choice.finish_reason) = ToolCalls
    THEN FinishToolCalls(st, order, 1)
    ELSE FinishOther(st)

\* faulty variant of HandleChoice: the test of choice.index is dropped
HandleChoiceAnyIndex(st, choice, order) ==
    LET s1 == HandleContent(st, choice)
        s2 == IF IsSome(choice.tool_calls)
              THEN HandleToolCalls(s1, Unwrap(choice.tool_calls), 1)
              ELSE s1
    IN  HandleFinish(s2, choice, order)

\* faulty variant of HandleChoice: the terminal reason is handled before the
\* tool-call fragments of the choice
HandleChoiceFinishFirst(st, choice, order) ==
    IF choice.index # 0 THEN st
    ELSE
        LET s1 == HandleContent(st, choice)
            s2 == HandleFinish(s1, choice, order)
        IN  IF ~s2.live \/ ~IsSome(choice.tool_calls) THEN s2
            ELSE HandleToolCalls(s2, Unwrap(choice.tool_calls), 1)

\* the body of `for choice in chunk.choices`
HandleChoice(st, choice, order) ==
    IF choice.index # 0 THEN st
    ELSE
        LET s1 == HandleContent(st, choice)
            s2 == IF IsSome(choice.tool_calls)
                  THEN HandleToolCalls(s1, Unwrap(choice.tool_calls), 1)
                  ELSE s1
        IN  HandleFinish(s2, choice, order)

\* faulty variant of HandleChoices: the loop over the choices goes on behind a
\* finish branch
RECURSIVE HandleChoicesNoReturn(_, _, _, _)
HandleChoicesNoReturn(st, choices, k, order) ==
    IF k > Len(choices) THEN st
    ELSE HandleChoicesNoReturn(HandleChoice(st, choices[k], order), choices, k + 1, order)

\* `for choice in chunk.choices`, left by the `return` of a finish branch
RECURSIVE HandleChoices(_, _, _, _)
HandleChoices(st, choices, k, order) ==
    IF k > Len(choices) \/ ~st.live THEN st
    ELSE HandleChoices(HandleChoice(st, choices[k], order), choices, k + 1, order)

\* every order a HashMap over Indices may iterate in
Orders ==
    {o \in [1..Cardinality(Indices) -> Indices] :
        \A a, b \in DOMAIN o : a # b => o[a] # o[b]}

\* the iteration order is read by the tool_calls branch alone: one order stands
\* for all of them when the chunk cannot reach that branch
OrdersFor(chunk) ==
    IF \E k \in 1..Len(chunk.choices) :
           chunk.choices[k].finish_reason = Some(ToolCalls)
    THEN Orders
    ELSE {[k \in 1..Cardinality(Indices) |-> k - 1]}

----------------------------------------------------------------------------
(* What the inner stream can deliver.  Argument fragments are the two      *)
(* halves of {"x":1}, a whole object, a blank and the empty string.        *)

FragOpen == <<"{", "\"", "x", "\"", ":">>
FragClose == <<"1", "}">>
FragWhole == <<"{", "}">>
FragSpace == <<" ">>
FragEmpty == <<>>

IdOnly(i, id) == Tc(i, Some(id), None)
NameOnly(i, name) == Tc(i, None, Some(Fn(Some(name), None)))
ArgsOnly(i, f) == Tc(i, None, Some(Fn(None, Some(f))))
\* the shape of a provider's first fragment: id, name and empty arguments
Opening(i, id, name) == Tc(i, Some(id), Some(Fn(Some(name), Some(FragEmpty))))

DeltaChunk(tc) == Chunk(<<Choice(0, None, Some(<<tc>>), None)>>)
TextChunk(t) == Chunk(<<Choice(0, Some(t), None, None)>>)
FinishChunk(r) == Chunk(<<Choice(0, None, None, Some(r))>>)

\* a stream about tool index 0 alone
DeepDeltas ==
    {IdOnly(0, <<"c", "a", "l", "l", "_", "a">>), NameOnly(0, <<"f">>),
     ArgsOnly(0, FragOpen), ArgsOnly(0, FragClose), ArgsOnly(0, FragSpace)}

DeepChunks ==
    {DeltaChunk(tc) : tc \in DeepDeltas}
        \cup {FinishChunk(ToolCalls), FinishChunk(Stop)}

Deltas ==
    DeepDeltas
        \cup {IdOnly(i, <<"c", "a", "l", "l", "_", "a">>) : i \in Indices}
        \cup {NameOnly(i, <<"f">>) : i \in Indices}
        \cup {ArgsOnly(i, FragWhole) : i \in Indices}
        \cup {ArgsOnly(i, FragClose) : i \in Indices}
        \cup {IdOnly(0, <<"c", "a", "l", "l", "_", "b">>), NameOnly(0, <<"g">>), Opening(0, <<"c", "a", "l", "l", "_", "a">>, <<"f">>)}

Chunks ==
    {DeltaChunk(tc) : tc \in Deltas}
        \cup {TextChunk(t) : t \in {<<>>, <<"h", "i">>}}
        \cup {FinishChunk(r) : r \in FinishReasons}
        \cup {\* no choice at all
              Chunk(<<>>),
              \* two fragments in one chunk
              Chunk(<<Choice(0, None,
                             Some(<<IdOnly(0, <<"c", "a", "l", "l", "_", "a">>), ArgsOnly(MaxIndex, FragWhole)>>),
                             None)>>),
              \* text, a fragment and the terminal reason in one chunk
              Chunk(<<Choice(0, Some(<<"h", "i">>), Some(<<ArgsOnly(0, FragWhole)>>),
                             Some(ToolCalls))>>),
              \* a second choice, with everything in it, before the first one
              Chunk(<<Choice(1, Some(<<"h", "i">>), Some(<<Opening(0, <<"c", "a", "l", "l", "_", "b">>, <<"g">>)>>),
                             Some(Stop)),
                      Choice(0, Some(<<"h", "i">>), None, None)>>),
              \* a choice behind the one that carries the terminal reason
              Chunk(<<Choice(0, None, None, Some(Length)),
                      Choice(0, Some(<<"h", "i">>), Some(<<ArgsOnly(0, FragWhole)>>),
                             Some(Stop))>>)}

\* OpenAiError variants an item of the inner stream can carry
StreamErrors == {"Http", "Serde", "Unknown"}

\* the two ways the inner stream ends without an error
StreamEnds == {"done_sentinel", "eof"}

\* the exploration goes MaxItems items deep, and MaxDeepItems items deep
\* along streams made of DeepChunks (deep: the next item is such a chunk,
\* an error or the end)
WithinBounds(deep) ==
    \/ Len(fed) < MaxItems
    \/ /\ Len(fed) < MaxDeepItems
       /\ deep
       /\ \A k \in 1..Len(fed) : fed[k] \in DeepChunks

----------------------------------------------------------------------------
(* The event stream *)

\* the client below the event stream is not looked into: its items are the
\* inputs of the actions
ClientUnused ==
    /\ mode = "none"
    /\ retry = [max_retries |-> 0, base_delay |-> <<0>>, max_delay |-> <<0>>,
                respect_retry_after |-> FALSE]
    /\ cpc = "unused"
    /\ attempt = 0
    /\ delay = <<0>>
    /\ sent = 0
    /\ sleeps = <<>>
    /\ outcomes = <<>>
    /\ result = None
    /\ text = None
    /\ running = "none"
    /\ other_steps = 0
    /\ rest = <<>>
    /\ buf = <<>>
    /\ items = <<>>
    /\ frames = <<>>
    /\ delivered = <<>>

Init ==
    /\ pc = "created"
    /\ susp_at = None
    /\ out = <<>>
    /\ tool_args = <<>>
    /\ tool_seen = <<>>
    /\ seen_order = <<>>
    /\ fed = <<>>
    /\ calls = <<>>
    /\ ClientUnused
    /\ api_key \in FewKeys

\* the first poll of the generator: the request is made of the params, the
\* two maps are created, client.chat_completion_stream(request) is called,
\* which panics on a key that is no header value, and stream.next() is
\* awaited
FirstPoll ==
    /\ pc = "created"
    /\ pc' = IF Authorization(api_key).ok THEN "streaming" ELSE "panicked"
    /\ UNCHANGED <<susp_at, out, tool_args, tool_seen, seen_order, fed, calls>>
    /\ UNCHANGED cvars

\* what the generator holds
Held ==
    [out |-> out, tool_args |-> tool_args, tool_seen |-> tool_seen,
     seen_order |-> seen_order]

\* the generator at the top of the loop body, holding base, on a run that
\* goes up to the stop-th yield of the body (to its end when stop is 0)
Entering(base, stop) ==
    [out |-> base.out, tool_args |-> base.tool_args,
     tool_seen |-> base.tool_seen, seen_order |-> base.seen_order,
     live |-> TRUE, made |-> 0, stop |-> stop, susp |-> FALSE]

\* the loop body on one chunk, up to its stop-th yield
RunBody(base, chunk, order, stop) ==
    HandleChoices(Entering(base, stop), chunk.choices, 1, order)

\* where a run of the loop body has brought the generator: suspended at a
\* yield, back at stream.next().await, or returned
Settle(st, base, order) ==
    /\ out' = st.out
    /\ tool_args' = st.tool_args
    /\ tool_seen' = st.tool_seen
    /\ seen_order' = st.seen_order
    /\ pc' = IF st.susp THEN "yielded" ELSE IF st.live THEN "streaming" ELSE "ended"
    /\ susp_at' = IF st.susp
                  THEN Some([base |-> base, order |-> order, made |-> st.made])
                  ELSE None

\* stream.next() gave Some(Ok(chunk)): the loop body runs up to its first
\* yield, or through when it yields nothing
OnChunk(chunk) ==
    /\ pc = "streaming"
    /\ WithinBounds(chunk \in DeepChunks)
    /\ \E order \in OrdersFor(chunk) :
        Settle(RunBody(Held, chunk, order, 1), Held, order)
    /\ fed' = Append(fed, chunk)
    /\ UNCHANGED <<calls, cvars>>

\* the consumer polls the generator suspended at a yield: it goes on to its
\* next yield or to stream.next().await, or returns
PollAgain ==
    /\ pc = "yielded"
    /\ IF IsSome(susp_at)
       THEN LET at == Unwrap(susp_at)
            IN  Settle(RunBody(at.base, Last(fed), at.order, at.made + 1),
                       at.base, at.order)
       ELSE /\ pc' = "ended"
            /\ UNCHANGED <<susp_at, out, tool_args, tool_seen, seen_order>>
    /\ UNCHANGED <<fed, calls, cvars>>

\* stream.next() gave Some(Err(e)): `?` yields the converted error
OnStreamError(e) ==
    /\ pc = "streaming"
    /\ WithinBounds(TRUE)
    /\ out' = Append(out, ErrItem("Backend"))
    /\ pc' = "yielded"
    /\ fed' = Append(fed, [item |-> "error", error |-> e])
    /\ UNCHANGED <<susp_at, tool_args, tool_seen, seen_order, calls>>
    /\ UNCHANGED cvars

\* stream.next() gave None: the while loop is left and the generator ends
OnStreamEnd(how) ==
    /\ pc = "streaming"
    /\ WithinBounds(TRUE)
    /\ pc' = "ended"
    /\ fed' = Append(fed, [item |-> "end", how |-> how])
    /\ UNCHANGED <<susp_at, out, tool_args, tool_seen, seen_order, calls>>
    /\ UNCHANGED cvars

Next ==
    \/ FirstPoll
    \/ \E chunk \in Chunks : OnChunk(chunk)
    \/ PollAgain
    \/ \E e \in StreamErrors : OnStreamError(e)
    \/ \E how \in StreamEnds : OnStreamEnd(how)

Spec == Init /\ [][Next]_vars

----------------------------------------------------------------------------
(* RetryPolicy (client.rs) *)

PowCap == 10

\* variant: the backoff is not held below max_delay
backoff_for_uncapped(policy, a) ==
    saturating_mul(policy.base_delay, 2 ^ Min(a, PowCap))

\* base_delay.saturating_mul(1 << attempt.min(10)), held at max_delay
backoff_for(policy, a) ==
    BigMin(saturating_mul(policy.base_delay, 2 ^ Min(a, PowCap)), policy.max_delay)

----------------------------------------------------------------------------
(* Response headers.  headers holds, for each header the client reads, the *)
(* bytes of its first value, None when the header is absent.               *)

\* hv.to_str().ok(): the value as a str when each of its bytes is a tab or
\* visible ASCII (0x20 to 0x7E)
to_str(hv) ==
    IF \A i \in 1..Len(hv) :
          hv[i] = "\t" \/ (32 <= ByteVal(hv[i]) /\ ByteVal(hv[i]) <= 126)
    THEN Some(hv)
    ELSE None

\* headers.get(name).and_then(|hv| hv.to_str().ok())
header_str(headers, name) ==
    IF IsSome(headers[name]) THEN to_str(Unwrap(headers[name])) ELSE None

\* val.trim().parse::<u64>(), of the value if there is one
TrimmedU64(val) ==
    IF IsSome(val) THEN ParseUnsigned(trim(Unwrap(val)), U64Max) ELSE None

\* Duration::from_secs(secs) if the value parsed, Duration::from_secs(0)
SecondsOr0(secs) == IF IsSome(secs) THEN from_secs(Unwrap(secs)) ELSE from_secs(<<0>>)

\* the Retry-After header as whole seconds, zero when absent or unreadable
parse_retry_after_seconds(headers) ==
    SecondsOr0(TrimmedU64(header_str(headers, "retry_after")))

\* .and_then(|s| s.parse::<u32>().ok())
ParsedU32(s) == IF IsSome(s) THEN ParseUnsigned(Unwrap(s), U32Max) ELSE None

\* the header as a u32, None when absent or unreadable
header_u32(headers, name) == ParsedU32(header_str(headers, name))

header_string(headers, name) == header_str(headers, name)

OpenAiRateLimitHeaders(headers) ==
    [limit_requests     |-> header_u32(headers, "limit_requests"),
     remaining_requests |-> header_u32(headers, "remaining_requests"),
     reset_requests     |-> header_string(headers, "reset_requests"),
     limit_tokens       |-> header_u32(headers, "limit_tokens"),
     remaining_tokens   |-> header_u32(headers, "remaining_tokens"),
     reset_tokens       |-> header_string(headers, "reset_tokens")]

\* variant: the token reset is preferred
ResetAtTokensFirst(info) ==
    IF IsSome(info.reset_tokens) THEN info.reset_tokens ELSE info.reset_requests

\* first the request reset, then the token reset
ResetAt(info) ==
    IF IsSome(info.reset_requests) THEN info.reset_requests ELSE info.reset_tokens

\* the triple extract_rate_limit_info returns
RateLimitInfo(d, info) ==
    [retry_after |-> IF as_secs(d) # <<0>> THEN Some(d) ELSE None,
     reset_at    |-> ResetAt(info),
     headers     |-> info]

\* (retry_after, reset_at, headers) of a response
extract_rate_limit_info(headers) ==
    RateLimitInfo(parse_retry_after_seconds(headers), OpenAiRateLimitHeaders(headers))

----------------------------------------------------------------------------
(* post_json_with_retry (client.rs).  A response is its status, its        *)
(* headers and, when the status is a success, the bytes of its body.       *)

is_success(status) == 200 <= status /\ status <= 299

is_server_error(status) == 500 <= status /\ status <= 599

TOO_MANY_REQUESTS == 429

\* variant: server errors are not retried
should_retry_only_429(status) == status = TOO_MANY_REQUESTS

\* variant: every status that is not a success is retried
should_retry_any_failure(status) == ~is_success(status)

should_retry(status) == status = TOO_MANY_REQUESTS \/ is_server_error(status)

\* variant: Retry-After is honoured whatever the policy says
response_delay_always_header(policy, a, headers) ==
    LET backoff == backoff_for(policy, a)
        hdr_delay == parse_retry_after_seconds(headers)
    IN  IF BigLess(backoff, hdr_delay) THEN hdr_delay ELSE backoff

\* the delay slept before the next attempt after a retryable status
response_delay(policy, a, headers) ==
    BigMax(backoff_for(policy, a),
           IF policy.respect_retry_after
           THEN parse_retry_after_seconds(headers)
           ELSE from_secs(<<0>>))

\* OpenAiError::RateLimited { status, body, retry_after, reset_at, headers }
RateLimited(status, body, info) ==
    [error |-> "RateLimited", status |-> status, body |-> body,
     retry_after |-> info.retry_after, reset_at |-> info.reset_at,
     headers |-> info.headers]

\* Result<String, _>::unwrap_or_default()
unwrap_or_default(res) == IF res.ok THEN res.val ELSE <<>>

\* faulty variant of response_error: every status that is retried is reported
\* as a rate limit once the retries are used up
response_error_retried_as_rate_limit(resp, body) ==
    IF should_retry(resp.status)
    THEN RateLimited(resp.status, body, extract_rate_limit_info(resp.headers))
    ELSE [error |-> "Api", status |-> resp.status, body |-> body]

\* the error of a response that is not retried, body being the text read
response_error(resp, body) ==
    IF resp.status = TOO_MANY_REQUESTS
    THEN RateLimited(resp.status, body, extract_rate_limit_info(resp.headers))
    ELSE [error |-> "Api", status |-> resp.status, body |-> body]

\* variant: only timeouts and connection failures are retried
retryable_timeout_or_connect(err) == err.is_timeout \/ err.is_connect

\* err.is_timeout() || err.is_connect() || !err.is_status()
retryable(err) == err.is_timeout \/ err.is_connect \/ ~err.is_status

----------------------------------------------------------------------------
(* What the server and the transport can answer *)

MaxRetries == 2       \* max_retries of the policies explored
MaxOtherSteps == 1    \* steps of the unrelated task

NoHeaders ==
    [retry_after |-> None, limit_requests |-> None, remaining_requests |-> None,
     reset_requests |-> None, limit_tokens |-> None, remaining_tokens |-> None,
     reset_tokens |-> None]

RetryAfter(v) == [NoHeaders EXCEPT !.retry_after = Some(v)]

\* every rate-limit header present and well-formed
RateHeadersFull ==
    [retry_after |-> Some(<<"5">>),
     limit_requests |-> Some(<<"6", "0">>), remaining_requests |-> Some(<<"0">>),
     reset_requests |-> Some(<<"1", "s">>),
     limit_tokens |-> Some(<<"9", "0">>), remaining_tokens |-> Some(<<"7">>),
     reset_tokens |-> Some(<<"6", "m">>)]

\* Retry-After: 0, no request headers, a token count that is not a number
RateHeadersTokens ==
    [NoHeaders EXCEPT !.retry_after = Some(<<"0">>),
                      !.limit_tokens = Some(<<"+", "9">>),
                      !.remaining_tokens = Some(<<"n", "o">>),
                      !.reset_tokens = Some(<<"6", "m">>)]

Response(status, headers, body) ==
    [kind |-> "response", status |-> status, headers |-> headers, body |-> body]

Success == Response(200, NoHeaders, Some(<<>>))

Responses ==
    {Success, Response(404, NoHeaders, None)}
    \cup {Response(429, h, None) :
            h \in {NoHeaders, RetryAfter(<<"1">>), RateHeadersFull, RateHeadersTokens}}
    \cup {Response(500, h, None) :
            h \in {NoHeaders, RetryAfter(<<"5">>), RetryAfter(<<"s", "o", "o", "n">>)}}

\* what resp.text() can give: the body as text, or the error of the read
TextResults == {Ok(<<"o", "o", "p", "s">>), Ok(<<>>), Err("read")}

\* reqwest's send() fails with a timeout, a connect or a request error; it
\* never builds a status error (those come from error_for_status only)
SendError(what) ==
    [kind |-> "error", what |-> what, is_timeout |-> what = "timeout",
     is_connect |-> what = "connect", is_status |-> FALSE]

SendErrors == {SendError("timeout"), SendError("connect"), SendError("request")}

DefaultPolicy ==
    [max_retries |-> 3, base_delay |-> from_millis(<<5, 0, 0>>),
     max_delay |-> from_secs(<<3, 0>>), respect_retry_after |-> TRUE]

Policies ==
    {[max_retries |-> m, base_delay |-> d[1], max_delay |-> d[2],
      respect_retry_after |-> r] :
        m \in 0..MaxRetries,
        d \in {<<DefaultPolicy.base_delay, DefaultPolicy.max_delay>>,
                <<from_secs(<<3>>), from_secs(<<4>>)>>},
        r \in BOOLEAN}

----------------------------------------------------------------------------
(* The retrying POST as a task on an executor thread.  The thread is       *)
(* inside the task (running = "req") from the moment the task is polled    *)
(* until it reaches an await that is pending; std::thread::sleep is not an *)
(* await, the thread stays inside the task for the whole delay.            *)

EventUnused ==
    /\ pc = "unused"
    /\ susp_at = None
    /\ out = <<>>
    /\ tool_args = <<>>
    /\ tool_seen = <<>>
    /\ seen_order = <<>>
    /\ fed = <<>>
    /\ calls = <<>>

StreamUnused ==
    /\ rest = <<>>
    /\ buf = <<>>
    /\ items = <<>>
    /\ frames = <<>>
    /\ delivered = <<>>

\* the client before a call: post_json_with_retry is handed its headers
\* and starts at the top of its loop; chat_completion and
\* chat_completion_stream have not been called
CallStart(m, policy, key) ==
    /\ mode = m
    /\ retry = policy
    /\ api_key = key
    /\ cpc = IF m = "post" THEN "start" ELSE "call"
    /\ attempt = 0
    /\ delay = <<0>>
    /\ sent = 0
    /\ sleeps = <<>>
    /\ outcomes = <<>>
    /\ result = None
    /\ text = None
    /\ running = "none"
    /\ other_steps = 0

InitRetry ==
    /\ EventUnused
    /\ StreamUnused
    /\ \E policy \in Policies : CallStart("post", policy, <<"s", "k">>)

\* post_json_with_retry returns res to its caller: to the application in
\* mode "post"; to chat_completion_stream in mode "stream", which goes on to
\* read the body, or yields the error (`?`) and returns when it is polled
\* again
Returned(res) ==
    /\ result' = Some(res)
    /\ IF mode = "stream"
       THEN IF res.ok
            THEN /\ cpc' = "reading"
                 /\ rest' = Unwrap(res.val.body)
                 /\ items' = items
            ELSE /\ cpc' = "failed"
                 /\ rest' = rest
                 /\ items' = Append(items, Err(res.err.error))
       ELSE /\ cpc' = "returned"
            /\ UNCHANGED <<rest, items>>

\* self.http.post(url)...send(): the request leaves, the task awaits
Send ==
    /\ cpc = "start"
    /\ sent' = sent + 1
    /\ cpc' = "await_send"
    /\ running' = "none"
    /\ UNCHANGED <<mode, retry, api_key, attempt, delay, sleeps, outcomes, result, text,
                   other_steps, rest, buf, items, frames, delivered>>
    /\ UNCHANGED evars

\* std::thread::sleep(delay), entered by the branch that retries
Sleep(d) ==
    /\ delay' = d
    /\ sleeps' = Append(sleeps, [attempt |-> attempt, delay |-> d])
    /\ cpc' = "sleeping"
    /\ running' = "req"
    /\ UNCHANGED <<result, rest, items>>

\* send() gave Ok(resp): the response is returned, or the task sleeps to
\* retry, or it goes on to read the body, resp.text().await
OnResponse(resp) ==
    /\ cpc = "await_send"
    /\ running = "none"
    /\ outcomes' = Append(outcomes, resp)
    /\ IF is_success(resp.status)
       THEN Returned(Ok(resp)) /\ UNCHANGED <<delay, sleeps, running>>
       ELSE IF should_retry(resp.status) /\ attempt < retry.max_retries
            THEN Sleep(response_delay(retry, attempt, resp.headers))
            ELSE /\ cpc' = "await_text"
                 /\ UNCHANGED <<delay, sleeps, running, result, rest, items>>
    /\ UNCHANGED <<mode, retry, api_key, attempt, sent, text, other_steps, buf, frames,
                   delivered>>
    /\ UNCHANGED evars

\* resp.text() gave res, resp being the response taken last: the error is
\* built and returned
OnText(res) ==
    /\ cpc = "await_text"
    /\ running = "none"
    /\ text' = Some(res)
    /\ Returned(Err(response_error(Last(outcomes), unwrap_or_default(res))))
    /\ UNCHANGED <<mode, retry, api_key, attempt, delay, sent, sleeps, outcomes, running,
                   other_steps, buf, frames, delivered>>
    /\ UNCHANGED evars

\* send() gave Err(err)
OnSendError(err) ==
    /\ cpc = "await_send"
    /\ running = "none"
    /\ outcomes' = Append(outcomes, err)
    /\ IF attempt < retry.max_retries /\ retryable(err)
       THEN Sleep(backoff_for(retry, attempt))
       ELSE Returned(Err([error |-> "Http", source |-> err]))
            /\ UNCHANGED <<delay, sleeps, running>>
    /\ UNCHANGED <<mode, retry, api_key, attempt, sent, text, other_steps, buf, frames,
                   delivered>>
    /\ UNCHANGED evars

\* faulty variant of WakeUp: the loop is not entered again after the sleep
WakeUpParked ==
    /\ cpc = "sleeping"
    /\ UNCHANGED vars

\* faulty variant of WakeUp: the retry is not counted
WakeUpUncounted ==
    /\ cpc = "sleeping"
    /\ attempt' = attempt
    /\ cpc' = "start"
    /\ UNCHANGED <<mode, retry, api_key, delay, sent, sleeps, outcomes, result, text, running,
                   other_steps, rest, buf, items, frames, delivered>>
    /\ UNCHANGED evars

\* the sleep is over: attempt += 1; continue
WakeUp ==
    /\ cpc = "sleeping"
    /\ attempt' = attempt + 1
    /\ cpc' = "start"
    /\ UNCHANGED <<mode, retry, api_key, delay, sent, sleeps, outcomes, result, text, running,
                   other_steps, rest, buf, items, frames, delivered>>
    /\ UNCHANGED evars

\* the executor thread polls another task that is ready; it can do so only
\* when it is not inside a task
OtherStep ==
    /\ running = "none"
    /\ other_steps < MaxOtherSteps
    /\ other_steps' = other_steps + 1
    /\ UNCHANGED <<mode, retry, api_key, cpc, attempt, delay, sent, sleeps, outcomes,
                   result, text, running, rest, buf, items, frames, delivered>>
    /\ UNCHANGED evars

NextRetry ==
    \/ Send
    \/ \E resp \in Responses : OnResponse(resp)
    \/ \E res \in TextResults : OnText(res)
    \/ \E err \in SendErrors : OnSendError(err)
    \/ WakeUp
    \/ OtherStep

SpecRetry == InitRetry /\ [][NextRetry]_vars

\* resp.text() is awaited: OnText can be taken, and nothing else of the call
AwaitingText == cpc = "await_text" /\ running = "none"

\* the call with a caller that awaits it and an environment in which every
\* send() comes back with a response or an error and every sleep is over
\* after its delay.  Nothing is assumed about resp.text(): the client may
\* have no timeout (with_http takes any reqwest client) and the call sets
\* none around the read of the body, so the read may stay pending for ever.
SpecRetryFair ==
    /\ InitRetry
    /\ [][NextRetry]_vars
    /\ WF_vars(Send)
    /\ WF_vars((\E resp \in Responses : OnResponse(resp))
                  \/ (\E err \in SendErrors : OnSendError(err)))
    /\ WF_vars(WakeUp)

\* every resp.text() comes back with a value or an error: OnText is enabled
\* exactly while AwaitingText holds and ends it, so that this is weak
\* fairness of OnText
TextReturns == []<>~AwaitingText

----------------------------------------------------------------------------
(* The response body as bytes *)

\* buf.windows(2).position(|w| w == b"\n\n"): the first place, counted
\* from 0, where the two bytes stand; None if there is none
position(bytes) ==
    LET at == {p \in 0..(Len(bytes) - 2) : bytes[p + 1] = "\n" /\ bytes[p + 2] = "\n"}
    IN  IF at = {} THEN None ELSE Some(Least(at))

\* s is the beginning of t
IsPrefix(s, t) == Len(s) <= Len(t) /\ SubSeq(t, 1, Len(s)) = s

DataPrefix == <<"d", "a", "t", "a", ":", " ">>

\* frame_str.strip_prefix("data: ")
strip_prefix(s, prefix) ==
    IF Len(s) >= Len(prefix) /\ SubSeq(s, 1, Len(prefix)) = prefix
    THEN Some(SubSeq(s, Len(prefix) + 1, Len(s)))
    ELSE None

DoneMark == <<"[", "D", "O", "N", "E", "]">>

----------------------------------------------------------------------------
(* The body loop of chat_completion_stream (client.rs).  The generator's   *)
(* state is the record st: buf, the items yielded, the frames drained,     *)
(* susp, which says that it is suspended at a yield, and live, which turns *)
(* FALSE when it returns or has yielded the error of a `?`, behind which   *)
(* it returns.                                                             *)

\* `?` on an error: the error is yielded, the generator returns when it is
\* polled again
Fail(st, e) == [st EXCEPT !.items = Append(@, e), !.susp = TRUE, !.live = FALSE]

\* yield parsed
YieldChunk(st, parsed) == [st EXCEPT !.items = Append(@, parsed), !.susp = TRUE]

\* variant: the [DONE] frame is passed over and the loop goes on
HandleFrameDoneSkipped(st, frame) ==
    IF ~from_utf8_ok(frame)
    THEN Fail(st, Err("Unknown"))
    ELSE LET data == strip_prefix(frame, DataPrefix) IN
    IF data = None \/ trim(Unwrap(data)) = DoneMark THEN st
    ELSE LET parsed == chunk_from_str(trim(Unwrap(data))) IN
    IF parsed.ok
    THEN YieldChunk(st, parsed)
    ELSE Fail(st, parsed)

\* variant: a frame without the prefix is read as a payload from its first
\* byte on
HandleFramePrefixOptional(st, frame) ==
    IF ~from_utf8_ok(frame)
    THEN Fail(st, Err("Unknown"))
    ELSE LET stripped == strip_prefix(frame, DataPrefix)
             data == IF stripped = None THEN Some(frame) ELSE stripped IN
    IF trim(Unwrap(data)) = DoneMark THEN [st EXCEPT !.live = FALSE]
    ELSE LET parsed == chunk_from_str(trim(Unwrap(data))) IN
    IF parsed.ok
    THEN YieldChunk(st, parsed)
    ELSE Fail(st, parsed)

\* serde_json::from_str(data)?; yield parsed
YieldParsed(st, parsed) ==
    IF parsed.ok THEN YieldChunk(st, parsed) ELSE Fail(st, parsed)

\* the payload of a frame, trimmed: [DONE] ends the stream, anything else
\* is parsed
HandlePayload(st, data) ==
    IF data = DoneMark THEN [st EXCEPT !.live = FALSE]
    ELSE YieldParsed(st, chunk_from_str(data))

\* if let Some(data) = frame_str.strip_prefix("data: ") { .. }
HandleData(st, data) ==
    IF data = None THEN st ELSE HandlePayload(st, trim(Unwrap(data)))

\* one frame taken out of buf: from_utf8, strip_prefix, trim, [DONE], parse
HandleFrame(st, frame) ==
    IF ~from_utf8_ok(frame)
    THEN Fail(st, Err("Unknown"))
    ELSE HandleData(st, strip_prefix(frame, DataPrefix))

\* variant: the bytes behind the frame are dropped with it
DrainAll(st, pos) ==
    [st EXCEPT !.buf = <<>>,
               !.frames = Append(@, SubSeq(st.buf, 1, pos + 2))]

\* variant: the frame is taken without its delimiter, which is dropped
DrainBeforeDelimiter(st, pos) ==
    [st EXCEPT !.buf = SubSeq(@, pos + 3, Len(@)),
               !.frames = Append(@, SubSeq(st.buf, 1, pos))]

\* buf.drain(..pos + 2): the frame leaves buf, the bytes behind it stay
Drain(st, pos) ==
    [st EXCEPT !.buf = SubSeq(@, pos + 3, Len(@)),
               !.frames = Append(@, SubSeq(st.buf, 1, pos + 2))]

\* while let Some(pos) = buf.windows(2).position(..) { .. }, up to the
\* next yield
RECURSIVE DrainFrames(_)
DrainFrames(st) ==
    LET pos == position(st.buf) IN
    IF ~st.live \/ st.susp \/ pos = None THEN st
    ELSE DrainFrames(HandleFrame(Drain(st, Unwrap(pos)), SubSeq(st.buf, 1, Unwrap(pos) + 2)))

\* buf.extend_from_slice(&chunk), then the inner loop
PushChunk(st, chunk) == DrainFrames([st EXCEPT !.buf = @ \o chunk])

----------------------------------------------------------------------------
(* Response bodies *)

MaxChunks == 2        \* chunks a body is delivered in, at most

Delim == <<"\n", "\n">>

Data(payload) == DataPrefix \o payload \o Delim

\* a chunk without choices
DocMin ==
    <<"{", "\"", "o", "b", "j", "e", "c", "t", "\"", ":", "\"", "\"", ",",
      "\"", "c", "r", "e", "a", "t", "e", "d", "\"", ":", "0", ",", "\"",
      "m", "o", "d", "e", "l", "\"", ":", "\"", "\"", ",", "\"", "c", "h",
      "o", "i", "c", "e", "s", "\"", ":", "[", "]", "}">>

\* a chunk with one choice, its model name holding a two-byte character
DocChoice ==
    <<"{", "\"", "o", "b", "j", "e", "c", "t", "\"", ":", "\"", "c", "\"",
      ",", "\"", "c", "r", "e", "a", "t", "e", "d", "\"", ":", "1", ",",
      "\"", "m", "o", "d", "e", "l", "\"", ":", "\"">>
    \o <<"C3", "A9">> \o
    <<"\"", ",", "\"", "c", "h", "o", "i", "c", "e", "s", "\"", ":", "[",
      "{", "\"", "i", "n", "d", "e", "x", "\"", ":", "0", ",", "\"", "d",
      "e", "l", "t", "a", "\"", ":", "{", "\"", "c", "o", "n", "t", "e",
      "n", "t", "\"", ":", "\"", "a", "\"", "}", "}", "]", "}">>

\* JSON, but not a chunk
DocOther == <<"{", "\"", "a", "\"", ":", "1", "}">>

\* not JSON
DocCut == <<"{", "\"", "a", "\"", ":">>

Bodies ==
    {<<>>,
     Data(DocMin) \o Data(DoneMark),
     Data(DoneMark) \o Data(DocMin),
     Data(DocMin) \o Data(DocOther) \o Data(DoneMark),
     <<":", " ", "p", "i", "n", "g", "\n", "\n">> \o Data(DocChoice) \o DataPrefix \o DocCut,
     Data(DocMin) \o <<"\n">> \o Data(DocOther),
     Data(<<"{", "}", "FF">>) \o Data(DoneMark),
     Data(DocCut) \o Data(DoneMark),
     DataPrefix \o <<" ">> \o DoneMark \o <<" ">> \o Delim \o Data(DocCut),
     <<"FF">> \o Delim \o Data(DocMin),
     DataPrefix \o DocMin,
     <<":", "\n", "\n", "FF">>}

StreamResponses ==
    {Response(200, NoHeaders, Some(b)) : b \in Bodies}
    \cup {Response(500, NoHeaders, None)}

BodyErrors == {"Http"}

----------------------------------------------------------------------------
(* One streaming call: chat_completion_stream, from the POST to the end of *)
(* its item stream                                                         *)

InitFrames ==
    /\ EventUnused
    /\ StreamUnused
    /\ \E key \in ApiKeys :
          CallStart("stream", [DefaultPolicy EXCEPT !.max_retries = 1], key)

\* chat_completion_stream(request) is called: the headers are built, and
\* unwrap() panics on a key that is no header value; if it is one, the
\* stream is returned, which sends nothing until it is polled
ChatCompletionStream ==
    /\ mode = "stream"
    /\ cpc = "call"
    /\ cpc' = IF Authorization(api_key).ok THEN "start" ELSE "panicked"
    /\ UNCHANGED <<mode, retry, api_key, attempt, delay, sent, sleeps, outcomes,
                   result, text, running, other_steps, rest, buf, items, frames,
                   delivered>>
    /\ UNCHANGED evars

StreamState ==
    [buf |-> buf, items |-> items, frames |-> frames, live |-> TRUE,
     susp |-> FALSE]

\* where a run of the generator has brought it: suspended at the yield of
\* a chunk or of an error, returned, or at bytes_stream.next().await
SettleStream(st) ==
    /\ buf' = st.buf
    /\ items' = st.items
    /\ frames' = st.frames
    /\ cpc' = IF st.susp THEN (IF st.live THEN "yielded" ELSE "failed")
              ELSE IF st.live THEN "reading" ELSE "ended"

\* bytes_stream.next() gave Some(Ok(chunk)), the next n bytes of the body
ReadChunk(n) ==
    /\ cpc = "reading"
    /\ Len(delivered) < MaxChunks
    /\ n \in 1..Len(rest)
    /\ Len(delivered) = MaxChunks - 1 => n = Len(rest)
    /\ SettleStream(PushChunk(StreamState, SubSeq(rest, 1, n)))
    /\ delivered' = Append(delivered, SubSeq(rest, 1, n))
    /\ rest' = SubSeq(rest, n + 1, Len(rest))
    /\ UNCHANGED <<mode, retry, api_key, attempt, delay, sent, sleeps, outcomes, result, text,
                   running, other_steps>>
    /\ UNCHANGED evars

\* the consumer polls the generator suspended at a yield: behind the yield
\* of a chunk the inner loop goes on over what is left in buf, behind the
\* yield of an error the generator returns
PollStream ==
    /\ cpc \in {"yielded", "failed"}
    /\ IF cpc = "yielded"
       THEN SettleStream(DrainFrames(StreamState))
       ELSE cpc' = "ended" /\ UNCHANGED <<buf, items, frames>>
    /\ UNCHANGED <<mode, retry, api_key, attempt, delay, sent, sleeps, outcomes, result, text,
                   running, other_steps, rest, delivered>>
    /\ UNCHANGED evars

\* variant: a failure of the body is taken for a failure of the send
OnBodyErrorRetried(e) ==
    /\ cpc = "reading"
    /\ cpc' = "start"
    /\ UNCHANGED <<mode, retry, api_key, attempt, delay, sent, sleeps, outcomes, result, text,
                   running, other_steps, rest, buf, items, frames, delivered>>
    /\ UNCHANGED evars

\* bytes_stream.next() gave Some(Err(e)): `?` yields the error
OnBodyError(e) ==
    /\ cpc = "reading"
    /\ items' = Append(items, Err(e))
    /\ cpc' = "failed"
    /\ UNCHANGED <<mode, retry, api_key, attempt, delay, sent, sleeps, outcomes, result, text,
                   running, other_steps, rest, buf, frames, delivered>>
    /\ UNCHANGED evars

\* variant: at the end of the body what is left in buf is decoded as a
\* last frame
OnBodyEndTailDecoded ==
    /\ cpc = "reading"
    /\ rest = <<>>
    /\ cpc' = "ended"
    /\ items' = IF buf = <<>> THEN items ELSE HandleFrame(StreamState, buf).items
    /\ UNCHANGED <<mode, retry, api_key, attempt, delay, sent, sleeps, outcomes, result, text,
                   running, other_steps, rest, buf, frames, delivered>>
    /\ UNCHANGED evars

\* bytes_stream.next() gave None: the body is over, the generator ends
OnBodyEnd ==
    /\ cpc = "reading"
    /\ rest = <<>>
    /\ cpc' = "ended"
    /\ UNCHANGED <<mode, retry, api_key, attempt, delay, sent, sleeps, outcomes, result, text,
                   running, other_steps, rest, buf, items, frames, delivered>>
    /\ UNCHANGED evars

NextFrames ==
    \/ ChatCompletionStream
    \/ Send
    \/ \E resp \in StreamResponses : OnResponse(resp)
    \/ \E res \in TextResults : OnText(res)
    \/ WakeUp
    \/ PollStream
    \/ \E n \in 1..Len(rest) : ReadChunk(n)
    \/ \E e \in BodyErrors : OnBodyError(e)
    \/ OnBodyEnd

SpecFrames == InitFrames /\ [][NextFrames]_vars

----------------------------------------------------------------------------
(* The same call on short bodies, which the transport may deliver in more  *)
(* reads, down to one byte each.                                           *)

MaxReads == 3         \* reads a short body is delivered in, at most

ShortBodies ==
    {<<":", "a", "b", "c">>,
     <<":", "a", "\n", "\n", ":", "b">>,
     Data(DoneMark),
     <<"FF">> \o Delim \o <<":">>}

ShortResponses ==
    {Response(200, NoHeaders, Some(b)) : b \in ShortBodies}
    \cup {Response(500, NoHeaders, None)}

\* bytes_stream.next() gave Some(Ok(chunk)), the next n bytes of the body
ReadSome(n) ==
    /\ cpc = "reading"
    /\ Len(delivered) < MaxReads
    /\ n \in 1..Len(rest)
    /\ SettleStream(PushChunk(StreamState, SubSeq(rest, 1, n)))
    /\ delivered' = Append(delivered, SubSeq(rest, 1, n))
    /\ rest' = SubSeq(rest, n + 1, Len(rest))
    /\ UNCHANGED <<mode, retry, api_key, attempt, delay, sent, sleeps, outcomes, result, text,
                   running, other_steps>>
    /\ UNCHANGED evars

NextReads ==
    \/ ChatCompletionStream
    \/ Send
    \/ \E resp \in ShortResponses : OnResponse(resp)
    \/ \E res \in TextResults : OnText(res)
    \/ WakeUp
    \/ PollStream
    \/ \E n \in 1..Len(rest) : ReadSome(n)
    \/ \E e \in BodyErrors : OnBodyError(e)
    \/ OnBodyEnd

SpecReads == InitFrames /\ [][NextReads]_vars

----------------------------------------------------------------------------
(* Two streaming calls on one adapter: chat_complete_events_stream over    *)
(* chat_completion_stream, both try_stream! generators.  A generator runs  *)
(* only inside a poll of its consumer, from where it was suspended to its  *)
(* next yield, to an await that is pending, or to its end; a dropped       *)
(* generator is never polled again.  Each call has its own generator state *)
(* in calls[c]: the locals of the two generators (buf, tool_args,          *)
(* tool_seen), where the generator stands (gen), and the histories.        *)
(* The parameters of a call are taken to convert (params.try_into()).      *)

Calls == {1, 2}

\* the chunk the client has decoded, as the loop over chunk.choices reads
\* it: tc.index and choice.index as integers, choice.delta laid flat
EventDelta(t) ==
    Tc(IntOf(t.index), t.id,
       IF IsSome(t.function)
       THEN Some(Fn(Unwrap(t.function).name, Unwrap(t.function).arguments))
       ELSE None)

EventChoice(c) ==
    Choice(IF c.index.neg THEN 0 - IntOf(c.index.n) ELSE IntOf(c.index.n),
           c.delta.content,
           IF IsSome(c.delta.tool_calls)
           THEN Some([i \in 1..Len(Unwrap(c.delta.tool_calls)) |->
                        EventDelta(Unwrap(c.delta.tool_calls)[i])])
           ELSE None,
           c.finish_reason)

EventChunk(chunk) ==
    Chunk([i \in 1..Len(chunk.choices) |-> EventChoice(chunk.choices[i])])

DocHead ==
    <<"{", "\"", "o", "b", "j", "e", "c", "t", "\"", ":", "\"", "\"", ",",
      "\"", "c", "r", "e", "a", "t", "e", "d", "\"", ":", "0", ",", "\"",
      "m", "o", "d", "e", "l", "\"", ":", "\"", "\"", ",", "\"", "c", "h",
      "o", "i", "c", "e", "s", "\"", ":", "[">>

DocTail == <<"]", "}">>

\* a text, and the first fragment of a tool call with its id and name
ChoiceOpen ==
    <<"{", "\"", "i", "n", "d", "e", "x", "\"", ":", "0", ",", "\"", "d",
      "e", "l", "t", "a", "\"", ":", "{", "\"", "c", "o", "n", "t", "e",
      "n", "t", "\"", ":", "\"", "a", "\"", ",", "\"", "t", "o", "o", "l",
      "_", "c", "a", "l", "l", "s", "\"", ":", "[", "{", "\"", "i", "n",
      "d", "e", "x", "\"", ":", "0", ",", "\"", "i", "d", "\"", ":", "\"",
      "c", "\"", ",", "\"", "f", "u", "n", "c", "t", "i", "o", "n", "\"",
      ":", "{", "\"", "n", "a", "m", "e", "\"", ":", "\"", "f", "\"", ",",
      "\"", "a", "r", "g", "u", "m", "e", "n", "t", "s", "\"", ":", "\"",
      "{", "\"", "}", "}", "]", "}", "}">>

\* the last fragment of the arguments and the terminal reason
ChoiceClose ==
    <<"{", "\"", "i", "n", "d", "e", "x", "\"", ":", "0", ",", "\"", "d",
      "e", "l", "t", "a", "\"", ":", "{", "\"", "t", "o", "o", "l", "_",
      "c", "a", "l", "l", "s", "\"", ":", "[", "{", "\"", "i", "n", "d",
      "e", "x", "\"", ":", "0", ",", "\"", "f", "u", "n", "c", "t", "i",
      "o", "n", "\"", ":", "{", "\"", "a", "r", "g", "u", "m", "e", "n",
      "t", "s", "\"", ":", "\"", "}", "\"", "}", "}", "]", "}", ",", "\"",
      "f", "i", "n", "i", "s", "h", "_", "r", "e", "a", "s", "o", "n", "\"",
      ":", "\"", "t", "o", "o", "l", "_", "c", "a", "l", "l", "s", "\"",
      "}">>

DocOpen == DocHead \o ChoiceOpen \o DocTail
DocClose == DocHead \o ChoiceClose \o DocTail

Ping == <<":", "\n", "\n">>

PullBodies ==
    {Ping \o Data(DocOpen) \o Data(DocClose) \o Data(DoneMark),
     Data(DocChoice) \o Data(DocCut) \o Data(DocClose),
     Data(DocChoice) \o <<"FF">> \o Delim \o Data(DocClose),
     Data(DocChoice)}

\* the reads the transport may deliver a body in: in one piece, or, when
\* it begins with a comment frame, cut between the two bytes of the
\* delimiter of that frame
Cuttings(body) ==
    {<<body>>}
    \cup {<<SubSeq(body, 1, k), SubSeq(body, k + 1, Len(body))>> :
            k \in IF IsPrefix(Ping, body) THEN {Len(Ping) - 1} ELSE {}}

PullResponses ==
    {Response(200, NoHeaders, Some(b)) : b \in PullBodies}
    \cup {Response(500, NoHeaders, None)}

\* the bodies speak of tool index 0 alone: a map of one entry is iterated
\* in one order
PullOrders == {[k \in 1..Cardinality(Indices) |-> k - 1]}

PullPolicy == [DefaultPolicy EXCEPT !.max_retries = 1]

\* a call whose stream has been returned to the application and not polled
NewCall ==
    [gen |-> "created",       \* "created", "post", "text", "sleep", "body",
                              \* "yield", "done", "panicked"
     dropped |-> FALSE,       \* the application has dropped the stream
     attempt |-> 0,           \* let mut attempt: u32
     buf |-> <<>>,            \* let mut buf = Vec::new()
     tool_args |-> <<>>,      \* let mut tool_args = HashMap::new()
     tool_seen |-> <<>>,      \* let mut tool_seen = HashMap::new()
     seen_order |-> <<>>,
     at |-> None,             \* the loop body the generator is in: what it
                              \* held at its top, the chunk, the yields made
     fin |-> FALSE,           \* the generator returns when it is resumed next
     reads |-> <<>>,          \* reads of the body the transport still holds
     out |-> <<>>,            \* history: the items the application was given
     pulls |-> 0,             \* history: the times the application asked for one
     sent |-> 0,              \* history: requests sent
     slept |-> 0,             \* history: retry sleeps started
     broke |-> FALSE,         \* history: the POST or the body has failed
     got |-> <<>>,            \* history: the reads taken from the body
     frames |-> <<>>]         \* history: the frames drained from buf

InitPull ==
    /\ pc = "unused"
    /\ susp_at = None
    /\ out = <<>>
    /\ tool_args = <<>>
    /\ tool_seen = <<>>
    /\ seen_order = <<>>
    /\ fed = <<>>
    /\ ClientUnused
    /\ api_key \in FewKeys
    /\ calls = [c \in Calls |-> NewCall]

\* variant: the generators run as a task of their own, which goes on when
\* the stream is dropped
PolledDetached(g) == g.gen \in {"post", "text", "sleep", "body"}

\* the generator is polled when an await of it is woken: the application
\* holds the stream and is awaiting its next item
Polled(g) == ~g.dropped /\ g.gen \in {"post", "text", "sleep", "body"}

\* variant: the error is yielded and the loop goes on
FailedGoesOn(g) ==
    [g EXCEPT !.out = Append(@, ErrItem("Backend")), !.gen = "yield"]

\* chunk.map_err(ArtificialError::from)?: the error is yielded, the
\* generator returns when resumed
Failed(g) ==
    [g EXCEPT !.out = Append(@, ErrItem("Backend")), !.gen = "yield",
              !.fin = TRUE]

\* what the generator of the events holds
HeldBy(g) ==
    [out |-> <<>>, tool_args |-> g.tool_args, tool_seen |-> g.tool_seen,
     seen_order |-> g.seen_order]

\* the loop over the choices of a chunk has brought the accumulators to
\* those of st
AfterChoices(g, st) ==
    [g EXCEPT !.tool_args = st.tool_args,
              !.tool_seen = st.tool_seen,
              !.seen_order = st.seen_order]

\* the frame drained from buf, where the first delimiter stands at pos, as
\* the client has handled it
OnFrame(g, pos) ==
    HandleFrame(Drain([buf |-> g.buf, items |-> <<>>, frames |-> g.frames,
                       live |-> TRUE, susp |-> FALSE], pos),
                SubSeq(g.buf, 1, pos + 2))

\* variant: the generator does not stop at a yield
RECURSIVE ResumeEager(_, _)
ResumeEager(g, order) ==
    IF g.fin THEN [g EXCEPT !.gen = "done"]
    ELSE IF IsSome(g.at)
    THEN LET at == Unwrap(g.at)
             st == RunBody(at.base, at.chunk, order, 0)
             h == [AfterChoices(g, st) EXCEPT !.out = @ \o st.out, !.at = None]
         IN  IF ~st.live THEN [h EXCEPT !.gen = "done"]
             ELSE ResumeEager(h, order)
    ELSE LET pos == position(g.buf) IN
    IF pos = None THEN [g EXCEPT !.gen = "body"]
    ELSE LET h == OnFrame(g, Unwrap(pos))
             g1 == [g EXCEPT !.buf = h.buf, !.frames = h.frames]
         IN  IF h.items = <<>>
             THEN IF h.live THEN ResumeEager(g1, order)
                  ELSE [g1 EXCEPT !.gen = "done"]
             ELSE IF ~h.items[1].ok THEN ResumeEager(Failed(g1), order)
             ELSE ResumeEager([g1 EXCEPT !.at =
                                 Some([base |-> HeldBy(g1),
                                       chunk |-> EventChunk(h.items[1].chunk),
                                       made |-> 0])], order)

\* the generator runs on from where it stands: to its next yield, to its
\* end, or to bytes_stream.next().await with no frame left in buf.  In the
\* loop body of a chunk it goes to the next yield of the body; out of it,
\* the client drains the next frame, and skips it, ends, yields an error, or
\* yields a chunk, whose loop body is entered
RECURSIVE Resume(_, _)

\* in the loop body of the chunk at.chunk, a run of which up to its next
\* yield has given st
InBody(g, at, st, order) ==
    LET h == AfterChoices(g, st)
    IN  IF st.susp
        THEN [h EXCEPT !.out = Append(@, Last(st.out)), !.gen = "yield",
                       !.at = Some([at EXCEPT !.made = st.made])]
        ELSE IF ~st.live THEN [h EXCEPT !.gen = "done", !.at = None]
        ELSE Resume([h EXCEPT !.at = None], order)

\* the client has handled a frame, which has left its generator as h, g1
\* being the generator with the buf and the frames of h
BehindFrame(g1, h, order) ==
    IF h.items = <<>>
    THEN IF h.live THEN Resume(g1, order)
         ELSE [g1 EXCEPT !.gen = "done"]
    ELSE IF ~h.items[1].ok THEN Failed(g1)
    ELSE Resume([g1 EXCEPT !.at =
                   Some([base |-> HeldBy(g1),
                         chunk |-> EventChunk(h.items[1].chunk),
                         made |-> 0])], order)

\* out of the loop body, the first delimiter of buf standing at pos
AtFrame(g, pos, h, order) ==
    IF pos = None THEN [g EXCEPT !.gen = "body"]
    ELSE BehindFrame([g EXCEPT !.buf = h.buf, !.frames = h.frames], h, order)

\* one poll of the generator g
Resume(g, order) ==
    IF g.fin THEN [g EXCEPT !.gen = "done"]
    ELSE IF IsSome(g.at)
    THEN InBody(g, Unwrap(g.at),
                RunBody(Unwrap(g.at).base, Unwrap(g.at).chunk, order,
                        Unwrap(g.at).made + 1),
                order)
    ELSE AtFrame(g, position(g.buf), OnFrame(g, Unwrap(position(g.buf))), order)

\* variant: buf is one vector of the adapter, used by all its calls
BufferOfAdapter(c) == 1

\* the call whose generator owns the buf call c works on: its own
BufferOf(c) == c

\* the generator state of call c as a step of c finds it
Generator(c) == [calls[c] EXCEPT !.buf = calls[BufferOf(c)].buf]

\* a step of call c has left its generator as g
Step(c, g) ==
    /\ calls' = [calls EXCEPT ![c] = g, ![BufferOf(c)].buf = g.buf]
    /\ UNCHANGED <<pc, susp_at, out, tool_args, tool_seen, seen_order, fed>>
    /\ UNCHANGED cvars

\* the application calls next() on the stream of call c.  The first poll
\* starts the generators: chat_completion_stream is called, which panics on
\* a key that is no header value; the request is sent, send() is awaited
PollNext(c) ==
    LET g == [Generator(c) EXCEPT !.pulls = @ + 1] IN
    /\ ~g.dropped
    /\ g.gen \in {"created", "yield"}
    /\ IF g.gen = "created"
       THEN IF Authorization(api_key).ok
            THEN Step(c, [g EXCEPT !.gen = "post", !.sent = @ + 1])
            ELSE Step(c, [g EXCEPT !.gen = "panicked"])
       ELSE \E order \in PullOrders : Step(c, Resume(g, order))

\* the application drops the stream of call c; it cannot while the thread
\* is inside the poll, in std::thread::sleep, and a poll that has panicked
\* has taken the stream with it
DropStream(c) ==
    /\ ~calls[c].dropped
    /\ calls[c].gen \notin {"sleep", "done", "panicked"}
    /\ Step(c, [Generator(c) EXCEPT !.dropped = TRUE])

\* send() of call c gave Ok(resp); reads is how the transport will deliver
\* the body
PostResponse(c, resp, reads) ==
    LET g == Generator(c) IN
    /\ Polled(g)
    /\ g.gen = "post"
    /\ IF is_success(resp.status)
       THEN /\ reads \in Cuttings(Unwrap(resp.body))
            /\ Step(c, [g EXCEPT !.gen = "body", !.reads = reads])
       ELSE /\ reads = <<>>
            /\ IF should_retry(resp.status) /\ g.attempt < PullPolicy.max_retries
               THEN Step(c, [g EXCEPT !.gen = "sleep", !.slept = @ + 1])
               ELSE Step(c, [g EXCEPT !.gen = "text"])

\* resp.text() of call c has come back: the error is returned, `?` of
\* chat_completion_stream yields it
PostText(c) ==
    LET g == Generator(c) IN
    /\ Polled(g)
    /\ g.gen = "text"
    /\ Step(c, Failed([g EXCEPT !.broke = TRUE]))

\* the sleep of call c is over: attempt += 1; continue; the request is sent
\* again
SleepOver(c) ==
    LET g == Generator(c) IN
    /\ Polled(g)
    /\ g.gen = "sleep"
    /\ Step(c, [g EXCEPT !.gen = "post", !.attempt = @ + 1, !.sent = @ + 1])

\* bytes_stream.next() of call c gave Some(Ok(chunk))
BodyChunk(c) ==
    LET g == Generator(c) IN
    /\ Polled(g)
    /\ g.gen = "body"
    /\ g.reads # <<>>
    /\ \E order \in PullOrders :
          Step(c, Resume([g EXCEPT !.buf = @ \o Head(g.reads),
                                   !.got = Append(@, Head(g.reads)),
                                   !.reads = Tail(@)], order))

\* bytes_stream.next() of call c gave None
BodyEnd(c) ==
    LET g == Generator(c) IN
    /\ Polled(g)
    /\ g.gen = "body"
    /\ g.reads = <<>>
    /\ Step(c, [g EXCEPT !.gen = "done"])

\* bytes_stream.next() of call c gave Some(Err(e))
BodyError(c) ==
    LET g == Generator(c) IN
    /\ Polled(g)
    /\ g.gen = "body"
    /\ Step(c, Failed([g EXCEPT !.broke = TRUE]))

NextPull ==
    \E c \in Calls :
        \/ PollNext(c)
        \/ DropStream(c)
        \/ \E resp \in PullResponses :
              \E reads \in (IF is_success(resp.status)
                            THEN Cuttings(Unwrap(resp.body)) ELSE {<<>>}) :
                  PostResponse(c, resp, reads)
        \/ PostText(c)
        \/ SleepOver(c)
        \/ BodyChunk(c)
        \/ BodyEnd(c)
        \/ BodyError(c)

SpecPull == InitPull /\ [][NextPull]_vars

----------------------------------------------------------------------------
(* The backoff policy alone: backoff_for called with any attempt number on *)
(* any policy.  The multiplication saturates at Duration::MAX: with a base *)
(* delay of 2^60 seconds it does from attempt 4 on.  The last attempt      *)
(* number, 2^31 - 1, stands for the large values of the u32.               *)

MaxAttempt == 12

Attempts == 0..MaxAttempt \cup {2147483647}

\* 2^60 seconds
LongDelay ==
    from_secs(<<1, 1, 5, 2, 9, 2, 1, 5, 0, 4, 6, 0, 6, 8, 4, 6, 9, 7, 6>>)

BackoffPolicies ==
    [max_retries : {DefaultPolicy.max_retries},
     base_delay : {<<0>>, <<1>>, from_millis(<<7>>), DefaultPolicy.base_delay,
                   LongDelay, DurationMax},
     max_delay : {<<0>>, from_millis(<<5>>), from_millis(<<1, 0, 2, 4>>),
                  DefaultPolicy.max_delay, DurationMax},
     respect_retry_after : {TRUE}]

InitBackoff ==
    /\ EventUnused
    /\ StreamUnused
    /\ mode = "backoff"
    /\ retry \in BackoffPolicies
    /\ api_key = <<"s", "k">>
    /\ cpc = "idle"
    /\ attempt = 0
    /\ delay = <<0>>
    /\ sent = 0
    /\ sleeps = <<>>
    /\ outcomes = <<>>
    /\ result = None
    /\ text = None
    /\ running = "none"
    /\ other_steps = 0

\* self.retry.backoff_for(a)
Backoff(a) ==
    /\ mode = "backoff"
    /\ attempt' = a
    /\ delay' = backoff_for(retry, a)
    /\ cpc' = "computed"
    /\ UNCHANGED <<mode, retry, api_key, sent, sleeps, outcomes, result, text, running,
                   other_steps, rest, buf, items, frames, delivered>>
    /\ UNCHANGED evars

NextBackoff == \E a \in Attempts : Backoff(a)

SpecBackoff == InitBackoff /\ [][NextBackoff]_vars

----------------------------------------------------------------------------
(* The non-streaming call: OpenAiClient::chat_completion reads the whole   *)
(* body of the response post_json_with_retry returned and deserializes it, *)
(* OpenAiAdapter::chat_complete maps the response to the generic one.      *)
(* cpc goes from "returned" to "completed" (chat_completion is back) and   *)
(* on to "done" (chat_complete returned a value) or "panicked" (the task   *)
(* was aborted by a panic and has no value).                               *)

\* Into<GenericRole> for MessageRole
GenericRoleOf(role) == IF role = K_function THEN <<"t", "o", "o", "l">> ELSE role

\* Into<GenericMessage> for ChatCompletionMessageForResponse
GenericMessageOf(message) ==
    [content |-> message.content,
     role |-> GenericRoleOf(message.role),
     tool_calls |-> message.tool_calls,
     name |-> message.name,
     tool_call_id |-> message.tool_call_id]

\* the outcomes of the body of chat_complete behind `client.chat_completion(
\* request).await`: a value, or no value when the task panics
Value(res) == [panic |-> FALSE, value |-> res]
Panic == [panic |-> TRUE]

\* chat_complete from usage_report on: response.choices.pop() and the match
\* on the finish reason of the choice popped
MapResponse(response) ==
    IF response.choices = <<>>
    THEN Value(Err([error |-> "Backend", source |-> [error |-> "Format"]]))
    ELSE LET first_choice == Last(response.choices) IN
         IF first_choice.finish_reason = Some(ToolCalls)
         THEN Panic
         ELSE IF first_choice.finish_reason \in {None, Some(Stop)}
         THEN Value(Ok([content |-> GenericMessageOf(first_choice.message),
                        usage |-> Some(response.usage)]))
         ELSE Value(Err([error |-> "Backend", source |-> [error |-> "Format"]]))

\* building the documents
Quoted(s) == <<"\"">> \o s \o <<"\"">>
Member(k, v) == Quoted(k) \o <<":">> \o v

RECURSIVE Joined(_, _)
Joined(parts, k) ==
    IF k > Len(parts) THEN <<>>
    ELSE (IF k > 1 THEN <<",">> ELSE <<>>) \o parts[k] \o Joined(parts, k + 1)

Object(members) == <<"{">> \o Joined(members, 1) \o <<"}">>
Array(elements) == <<"[">> \o Joined(elements, 1) \o <<"]">>
Null == <<"n", "u", "l", "l">>

UsageDoc ==
    Object(<<Member(K_prompt_tokens, <<"1">>), Member(K_completion_tokens, <<"2">>),
             Member(K_total_tokens, <<"3">>)>>)

\* an assistant message with a text
MessageText ==
    Object(<<Member(K_role, Quoted(<<"a", "s", "s", "i", "s", "t", "a", "n", "t">>)),
             Member(K_content, Quoted(<<"a">>))>>)

\* an assistant message that asks for the tool f
MessageCall ==
    Object(<<Member(K_role, Quoted(<<"a", "s", "s", "i", "s", "t", "a", "n", "t">>)),
             Member(K_content, Null),
             Member(K_tool_calls,
                    Array(<<Object(<<Member(K_id, Quoted(<<"c">>)),
                                     Member(K_type, Quoted(K_function)),
                                     Member(K_function,
                                            Object(<<Member(K_name, Quoted(<<"f">>)),
                                                     Member(K_arguments,
                                                            Quoted(<<"{", "}">>))>>))>>)>>))>>)

ChoiceDoc(message, reason) ==
    Object(<<Member(K_index, <<"0">>), Member(K_message, message),
             Member(K_finish_reason, reason)>>)

ResponseDoc(choices) ==
    Object(<<Member(K_object, Quoted(<<>>)), Member(K_created, <<"0">>),
             Member(K_model, Quoted(<<>>)), Member(K_choices, Array(choices)),
             Member(K_usage, UsageDoc)>>)

\* one body per finish reason, with no finish reason, with no choice, with
\* two choices, and two that are no response (no usage; not JSON)
ChatBodies ==
    {ResponseDoc(<<ChoiceDoc(MessageText, Quoted(r))>>) :
        r \in FinishReasons \ {ToolCalls}}
    \cup {ResponseDoc(<<ChoiceDoc(MessageCall, Quoted(K_tool_calls))>>),
          ResponseDoc(<<ChoiceDoc(MessageText, Null)>>),
          ResponseDoc(<<>>),
          ResponseDoc(<<ChoiceDoc(MessageCall, Quoted(K_tool_calls)),
                        ChoiceDoc(MessageText, Quoted(Stop))>>),
          DocMin,
          DocCut}

ChatResponses ==
    {Response(200, NoHeaders, Some(body)) : body \in ChatBodies}
        \cup {Response(500, NoHeaders, None), Response(429, NoHeaders, None)}

ChatPolicies == {policy \in Policies : policy.max_retries <= 1}

InitChat ==
    /\ EventUnused
    /\ StreamUnused
    /\ \E policy \in ChatPolicies, key \in ApiKeys : CallStart("chat", policy, key)

\* the first poll of chat_completion: the headers are built, and unwrap()
\* panics on a key that is no header value; if it is one,
\* post_json_with_retry is entered and sends the request
ChatCompletionStart ==
    /\ mode = "chat"
    /\ cpc = "call"
    /\ IF Authorization(api_key).ok
       THEN sent' = sent + 1 /\ cpc' = "await_send"
       ELSE sent' = sent /\ cpc' = "panicked"
    /\ UNCHANGED <<mode, retry, api_key, attempt, delay, sleeps, outcomes, result,
                   text, running, other_steps, rest, buf, items, frames,
                   delivered>>
    /\ UNCHANGED evars

\* chat_completion behind post_json_with_retry(..).await: `?` hands the
\* error on; resp.bytes().await? gives the body or fails; from_slice
ChatCompletion(read) ==
    /\ mode = "chat"
    /\ cpc = "returned"
    /\ cpc' = "completed"
    /\ result' = IF ~Unwrap(result).ok THEN result
                 ELSE IF ~read THEN Some(Err([error |-> "Http"]))
                 ELSE Some(response_from_slice(Unwrap(Unwrap(result).val.body)))
    /\ UNCHANGED <<mode, retry, api_key, attempt, delay, sent, sleeps, outcomes, text,
                   running, other_steps, rest, buf, items, frames, delivered>>
    /\ UNCHANGED evars

\* chat_complete behind client.chat_completion(request).await: `?` converts
\* the error into ArtificialError::Backend; the response is mapped
ChatComplete ==
    /\ mode = "chat"
    /\ cpc = "completed"
    /\ LET res == Unwrap(result)
           got == IF ~res.ok
                  THEN Value(Err([error |-> "Backend", source |-> res.err]))
                  ELSE MapResponse(res.val)
       IN  IF got.panic
           THEN cpc' = "panicked" /\ result' = None
           ELSE cpc' = "done" /\ result' = Some(got.value)
    /\ UNCHANGED <<mode, retry, api_key, attempt, delay, sent, sleeps, outcomes, text,
                   running, other_steps, rest, buf, items, frames, delivered>>
    /\ UNCHANGED evars

NextChat ==
    \/ ChatCompletionStart
    \/ Send
    \/ \E resp \in ChatResponses : OnResponse(resp)
    \/ \E res \in TextResults : OnText(res)
    \/ \E err \in SendErrors : OnSendError(err)
    \/ WakeUp
    \/ \E read \in BOOLEAN : ChatCompletion(read)
    \/ ChatComplete

SpecChat == InitChat /\ [][NextChat]_vars

----------------------------------------------------------------------------
(* Reading the two histories *)

IsToolEvent(e) ==
    e.kind \in {"ToolCallStart", "ToolCallArgumentsDelta", "ToolCallComplete"}

\* positions of out holding an event of this kind for tool index i
At(kind, i) == {k \in 1..Len(out) : out[k].kind = kind /\ out[k].index = i}

HasKind(s, kind) == \E k \in 1..Len(s) : s[k].kind = kind

\* the choices of a chunk that are for choice 0 and carry a terminal reason
TerminalChoices(chunk) ==
    {k \in 1..Len(chunk.choices) :
        chunk.choices[k].index = 0 /\ IsSome(chunk.choices[k].finish_reason)}

FirstOf(S) == CHOOSE k \in S : \A j \in S : k <= j

\* the terminal reason a chunk delivers, None when it delivers none
TerminalReason(chunk) ==
    IF TerminalChoices(chunk) = {} THEN None
    ELSE chunk.choices[FirstOf(TerminalChoices(chunk))].finish_reason

\* the terminal reason the stream got, None when it got none
ReasonGot ==
    IF fed # <<>> /\ Last(fed).item = "chunk" THEN TerminalReason(Last(fed)) ELSE None

\* the tool-call fragments choice 0 of a chunk delivers, up to its terminal reason
RECURSIVE ChoiceDeltas(_, _, _)
ChoiceDeltas(choices, k, stop) ==
    IF k > stop THEN <<>>
    ELSE (IF choices[k].index = 0 /\ IsSome(choices[k].tool_calls)
          THEN Unwrap(choices[k].tool_calls) ELSE <<>>)
         \o ChoiceDeltas(choices, k + 1, stop)

ChunkDeltas(chunk) ==
    ChoiceDeltas(chunk.choices, 1,
                 IF TerminalChoices(chunk) = {} THEN Len(chunk.choices)
                 ELSE FirstOf(TerminalChoices(chunk)))

\* all tool-call fragments delivered so far, in order
RECURSIVE FedDeltas(_)
FedDeltas(n) ==
    IF n = 0 THEN <<>>
    ELSE FedDeltas(n - 1)
         \o (IF fed[n].item = "chunk" THEN ChunkDeltas(fed[n]) ELSE <<>>)

IdSupplied(i) ==
    \E k \in 1..Len(FedDeltas(Len(fed))) :
        FedDeltas(Len(fed))[k].index = i /\ IsSome(FedDeltas(Len(fed))[k].id)

NameSupplied(i) ==
    \E k \in 1..Len(FedDeltas(Len(fed))) :
        LET tc == FedDeltas(Len(fed))[k] IN
        tc.index = i /\ IsSome(tc.function) /\ IsSome(Unwrap(tc.function).name)

\* the fragments of the ToolCallArgumentsDelta events for i among the first n
\* items of out, concatenated in emission order
RECURSIVE FragmentsOf(_, _)
FragmentsOf(i, n) ==
    IF n = 0 THEN <<>>
    ELSE FragmentsOf(i, n - 1)
         \o (IF out[n].kind = "ToolCallArgumentsDelta" /\ out[n].index = i
             THEN out[n].arguments_fragment ELSE <<>>)

\* position of index i in seen_order
SeenAt(i) == CHOOSE k \in 1..Len(seen_order) : seen_order[k] = i

----------------------------------------------------------------------------
(* Claims *)

\* C1: however the response body ends, the event sequence ends with MessageEnd
\* or with an error item; it never just stops.
C1_EndsWithMessageEndOrError ==
    pc = "ended" => out # <<>> /\ Last(out).kind \in {"MessageEnd", "Err"}

\* C2: at most one MessageEnd is emitted and nothing at all is emitted after it:
\* a MessageEnd is the last item, and the generator that has yielded it reads
\* no further chunk: it is suspended at that yield or has returned.
C2_MessageEndIsLast ==
    \A k \in 1..Len(out) :
        out[k].kind = "MessageEnd" => k = Len(out) /\ pc \in {"yielded", "ended"}

\* C2 witness: MessageEnd was emitted by a chunk that holds a further choice
\* behind the one with the terminal reason, and the generator was polled again.
C2_Witness ==
    /\ HasKind(out, "MessageEnd")
    /\ pc = "ended"
    /\ Last(fed).item = "chunk"
    /\ FirstOf(TerminalChoices(Last(fed))) < Len(Last(fed).choices)

\* C3: for every tool index, a ToolCallStart precedes every
\* ToolCallArgumentsDelta, and no ToolCallStart follows one.
C3_StartBeforeArgumentsDelta ==
    \A i \in Indices : \A k \in At("ToolCallArgumentsDelta", i) :
        /\ \E j \in At("ToolCallStart", i) : j < k
        /\ \A j \in At("ToolCallStart", i) : j < k

\* C4: for every tool index there is at most one ToolCallComplete, and every
\* other tool-call event of that index comes before it.
C4_CompleteIsLastOfIndex ==
    \A i \in Indices : \A k \in At("ToolCallComplete", i) :
        \A j \in 1..Len(out) :
            (j # k /\ IsToolEvent(out[j]) /\ out[j].index = i)
                => (j < k /\ out[j].kind # "ToolCallComplete")

\* C4 witness: an index completed after a start and an arguments delta, and
\* the generator has returned.
C4_Witness ==
    /\ pc = "ended"
    /\ \E i \in Indices :
        /\ At("ToolCallComplete", i) # {}
        /\ At("ToolCallStart", i) # {}
        /\ At("ToolCallArgumentsDelta", i) # {}

\* C5: on the tool-calls terminal reason every index that has an accumulator
\* gets its ToolCallComplete before MessageEnd, or the stream ends with an error.
C5_SightedIndicesFinalized ==
    (pc = "ended" /\ ReasonGot = Some(ToolCalls))
        => \/ (out # <<>> /\ Last(out).kind = "Err")
           \/ \A i \in DOMAIN tool_seen : At("ToolCallComplete", i) # {}

\* C6: the ToolCallComplete events come in the order in which their indices
\* were first seen in the stream.
C6_CompleteInFirstSeenOrder ==
    \A j, k \in 1..Len(out) :
        (j < k /\ out[j].kind = "ToolCallComplete" /\ out[k].kind = "ToolCallComplete")
            => SeenAt(out[j].index) < SeenAt(out[k].index)

\* C7: the buffer of an index is the concatenation of the fragments of its
\* ToolCallArgumentsDelta events, and the arguments of its ToolCallComplete
\* are what parsing that concatenation gives.
C7_ArgumentsRoundTrip ==
    /\ \A i \in DOMAIN tool_args : tool_args[i] = FragmentsOf(i, Len(out))
    /\ \A k \in 1..Len(out) :
        out[k].kind = "ToolCallComplete"
            => /\ from_str(FragmentsOf(out[k].index, Len(out))).ok
               /\ from_str(FragmentsOf(out[k].index, Len(out))).val = out[k].arguments

\* the value {"x":1}
ObjectX1 ==
    MapValue(<<<<"x">>>>, <<NumNode([t |-> "u64", n |-> <<1>>])>>)

\* C7 witness: an index completed from three fragments, and its arguments
\* are the object the accumulated text stands for.
C7_Witness ==
    \E i \in Indices : \E k \in At("ToolCallComplete", i) :
        /\ Cardinality(At("ToolCallArgumentsDelta", i)) >= 3
        /\ out[k].arguments = ObjectX1

CallA == <<"c", "a", "l", "l", "_", "a">>
CallB == <<"c", "a", "l", "l", "_", "b">>

\* the stream of the C8 example, and the events it must give
ScenarioFed ==
    <<DeltaChunk(IdOnly(0, CallA)), DeltaChunk(NameOnly(0, <<"f">>)),
      DeltaChunk(ArgsOnly(0, FragOpen)), DeltaChunk(ArgsOnly(0, FragClose)),
      FinishChunk(ToolCalls)>>

ScenarioOut ==
    <<ToolCallStart(0, Some(CallA), None),
      ToolCallStart(0, Some(CallA), Some(<<"f">>)),
      ToolCallArgumentsDelta(0, FragOpen),
      ToolCallArgumentsDelta(0, FragClose),
      ToolCallComplete(0, CallA, <<"f">>, ObjectX1),
      MessageEnd>>

\* the loop body is not in the middle of a chunk: every yield the chunks
\* delivered so far lead to has been made
BetweenChunks == susp_at = None

\* C8: the number of ToolCallStart events of an index is one for its id, if an
\* id was ever supplied, plus one for its name, if a name was ever supplied:
\* never more, and as many once the fragments delivered have been gone
\* through; and id-only, name-only, '{"x":', '1}', tool-calls gives exactly
\* Start{id}, Start{id, name}, two arguments deltas, Complete and MessageEnd.
C8_StartOncePerIdAndName ==
    /\ \A i \in Indices :
        LET due == (IF IdSupplied(i) THEN 1 ELSE 0)
                      + (IF NameSupplied(i) THEN 1 ELSE 0)
        IN  /\ Cardinality(At("ToolCallStart", i)) <= due
            /\ BetweenChunks => Cardinality(At("ToolCallStart", i)) = due
    /\ fed = ScenarioFed
         => /\ \A k \in 1..Len(out) : out[k] = ScenarioOut[k]
            /\ pc = "ended" => out = ScenarioOut

\* C8 witness: the example stream was delivered and handled to its end.
C8_Witness == fed = ScenarioFed /\ pc = "ended"

StopReasons == {Some(Stop), Some(Length), Some(ContentFilter)}

\* C9: a chunk whose terminal reason is stop, length or content-filter gives
\* MessageEnd and no ToolCallComplete, and the generator returns behind
\* that MessageEnd; when the chunk carries nothing but the reason,
\* MessageEnd is all it adds.
C9_StopEmitsOnlyMessageEnd ==
    [][/\ (fed' # fed /\ \E r \in StopReasons : Last(fed') = FinishChunk(Unwrap(r)))
            => /\ out' = Append(out, MessageEnd)
               /\ pc' = "yielded"
               /\ tool_args' = tool_args /\ tool_seen' = tool_seen
       /\ (fed' # <<>> /\ Last(fed').item = "chunk"
              /\ TerminalReason(Last(fed')) \in StopReasons)
            => /\ ~HasKind(out', "ToolCallComplete")
               /\ pc' # "streaming"
               /\ pc' = "ended" => Last(out') = MessageEnd
       /\ (pc = "yielded" /\ Last(out) = MessageEnd)
            => pc' = "ended" /\ out' = out]_vars

\* C9 witness: the stream ended on stop with an id, a name and buffered
\* argument text accumulated.
C9_Witness ==
    /\ pc = "ended"
    /\ ReasonGot = Some(Stop)
    /\ \E i \in DOMAIN tool_args :
        /\ tool_args[i] # <<>>
        /\ IsSome(tool_seen[i].id)
        /\ IsSome(tool_seen[i].name)

\* the indices whose buffer does not parse
Unparsable == {i \in DOMAIN tool_args : ~from_str(tool_args[i]).ok}

\* C10: on the tool-calls terminal reason, a buffer that does not parse ends the
\* sequence with the error as its last item: no ToolCallComplete for that
\* index, no MessageEnd, nothing behind the error.
C10_BadArgumentsAreFatal ==
    /\ \A k \in 1..Len(out) :
        out[k].kind = "Err" => k = Len(out) /\ pc \in {"yielded", "ended"}
    /\ (pc = "ended" /\ ReasonGot = Some(ToolCalls) /\ Unparsable # {})
        => /\ out # <<>>
           /\ Last(out) = ErrItem("Invalid")
           /\ ~HasKind(out, "MessageEnd")
           /\ \A i \in Unparsable : At("ToolCallComplete", i) = {}

\* C10 witness: the error came after another index had been completed.
C10_Witness ==
    /\ pc = "ended"
    /\ ReasonGot = Some(ToolCalls)
    /\ Unparsable # {}
    /\ HasKind(out, "ToolCallComplete")

----------------------------------------------------------------------------
(* Reading the history of a retrying POST.  The k-th outcome was received  *)
(* at attempt k - 1: every outcome before it was answered by a retry.      *)

Is5xx(o) == o.kind = "response" /\ o.status \in 500..599

Is2xx(o) == o.kind = "response" /\ o.status \in 200..299

Is429(o) == o.kind = "response" /\ o.status = 429

IsTransportFailure(o) == o.kind = "error"

\* a number of seconds and of milliseconds as a Duration
Seconds(n) == IF n = 0 THEN <<0>> ELSE BigOf(n) \o <<0, 0, 0, 0, 0, 0, 0, 0, 0>>
Millis(n) == IF n = 0 THEN <<0>> ELSE BigOf(n) \o <<0, 0, 0, 0, 0, 0>>

\* d * 2^e, by doubling
RECURSIVE Doubled(_, _)
Doubled(d, e) == IF e = 0 THEN d ELSE Doubled(BigAdd(d, d), e - 1)

\* min(base_delay * 2^min(a, 10), max_delay)
ExpectedBackoff(policy, a) ==
    LET e == IF a < 10 THEN a ELSE 10
        b == Doubled(policy.base_delay, e)
    IN  IF BigLess(b, policy.max_delay) THEN b ELSE policy.max_delay

\* the Retry-After values of the responses explored: 5 and 1 are whole
\* seconds; an absent header, "soon" and 0 count as zero
ExpectedRetryAfter(headers) ==
    CASE headers.retry_after = Some(<<"5">>) -> Seconds(5)
      [] headers.retry_after = Some(<<"1">>) -> Seconds(1)
      [] OTHER -> Seconds(0)

MaxOf(a, b) == IF BigLess(b, a) THEN a ELSE b

\* the text resp.text() gave, empty when the read failed
TextGot == IF Unwrap(text).ok THEN Unwrap(text).val ELSE <<>>

\* the call has given up after n requests and n - 1 sleeps: it is reading
\* the text of the last response, or has returned an error made by make
\* from the text read
GaveUpAfter(n, make(_)) ==
    /\ sent = n
    /\ Len(sleeps) = n - 1
    /\ \/ cpc = "await_text" /\ result = None /\ text = None
       \/ /\ cpc = "returned"
          /\ IsSome(text)
          /\ result = Some(Err(make(TextGot)))

\* the call has stopped after n requests and n - 1 sleeps
StoppedAfter(n) ==
    /\ cpc = "returned"
    /\ sent = n
    /\ Len(sleeps) = n - 1

\* C13: as long as every response so far was a server error and retries
\* remain, the executor has slept once per response and has not returned;
\* when such a run of N-1 server errors is followed by a success, the
\* executor returns that success after exactly N requests and N-1 sleeps,
\* and nothing is sent or slept afterwards.
C13_RetriesServerErrorsUntilSuccess ==
    LET n == Len(outcomes) IN
    /\ ((\A k \in 1..n : Is5xx(outcomes[k])) /\ n <= retry.max_retries)
         => /\ result = None
            /\ Len(sleeps) = n
            /\ sent \in {n, n + 1}
    /\ (n >= 1 /\ (\A k \in 1..(n - 1) : Is5xx(outcomes[k])) /\ Is2xx(outcomes[n]))
         => /\ result = Some(Ok(outcomes[n]))
            /\ StoppedAfter(n)

C13_Witness ==
    /\ Len(outcomes) = 3
    /\ Is5xx(outcomes[1]) /\ Is5xx(outcomes[2]) /\ Is2xx(outcomes[3])
    /\ cpc = "returned"
    /\ other_steps = MaxOtherSteps

\* C14: after a 429 or 5xx received at attempt a < max_retries the sleep
\* before the next attempt lasts max(backoff(a), r) when the policy respects
\* Retry-After and exactly backoff(a) when it does not, r being the
\* Retry-After value in whole seconds (0 when absent or not an unsigned
\* integer); with Retry-After: 5 and a respecting policy it lasts 5 s or more.
C14_SleepHonoursRetryAfter ==
    \A k \in 1..Len(outcomes) :
        ((Is429(outcomes[k]) \/ Is5xx(outcomes[k])) /\ k - 1 < retry.max_retries)
        => /\ Len(sleeps) >= k
           /\ sleeps[k].attempt = k - 1
           /\ sleeps[k].delay =
                IF retry.respect_retry_after
                THEN MaxOf(ExpectedBackoff(retry, k - 1),
                           ExpectedRetryAfter(outcomes[k].headers))
                ELSE ExpectedBackoff(retry, k - 1)
           /\ (retry.respect_retry_after
               /\ outcomes[k].headers.retry_after = Some(<<"5">>))
                => BigLeq(Seconds(5), sleeps[k].delay)

\* a Retry-After of 1 s loses against the backoff, one of 5 s wins, and a
\* policy that does not respect the header has slept the backoff
C14_Witness ==
    /\ Len(sleeps) = 2
    /\ retry.base_delay = Seconds(3)
    /\ outcomes[1].kind = "response"
    /\ outcomes[1].headers.retry_after = Some(<<"1">>)
    /\ outcomes[2].kind = "response"
    /\ outcomes[2].headers.retry_after = Some(<<"5">>)
    /\ sleeps[1].delay = Seconds(3)
    /\ sleeps[2].delay = IF retry.respect_retry_after THEN Seconds(5) ELSE Seconds(4)

\* what a RateLimited error must carry for each set of headers explored
ExpectedRateLimited(headers) ==
    CASE headers = NoHeaders ->
           [retry_after |-> None, reset_at |-> None,
            headers |-> [limit_requests |-> None, remaining_requests |-> None,
                         reset_requests |-> None, limit_tokens |-> None,
                         remaining_tokens |-> None, reset_tokens |-> None]]
      [] headers = RetryAfter(<<"1">>) ->
           [retry_after |-> Some(Seconds(1)), reset_at |-> None,
            headers |-> [limit_requests |-> None, remaining_requests |-> None,
                         reset_requests |-> None, limit_tokens |-> None,
                         remaining_tokens |-> None, reset_tokens |-> None]]
      [] headers = RateHeadersFull ->
           [retry_after |-> Some(Seconds(5)), reset_at |-> Some(<<"1", "s">>),
            headers |-> [limit_requests |-> Some(<<6, 0>>), remaining_requests |-> Some(<<0>>),
                         reset_requests |-> Some(<<"1", "s">>),
                         limit_tokens |-> Some(<<9, 0>>), remaining_tokens |-> Some(<<7>>),
                         reset_tokens |-> Some(<<"6", "m">>)]]
      [] headers = RateHeadersTokens ->
           [retry_after |-> None, reset_at |-> Some(<<"6", "m">>),
            headers |-> [limit_requests |-> None, remaining_requests |-> None,
                         reset_requests |-> None, limit_tokens |-> Some(<<9>>),
                         remaining_tokens |-> None,
                         reset_tokens |-> Some(<<"6", "m">>)]]

\* the RateLimited error of a response with these headers
RateLimitedOf(headers, body) ==
    LET want == ExpectedRateLimited(headers) IN
    [error |-> "RateLimited", status |-> 429, body |-> body,
     retry_after |-> want.retry_after, reset_at |-> want.reset_at,
     headers |-> want.headers]

\* C16: a 429 received when attempt = max_retries ends the call, without a
\* sleep and without another request, with a RateLimited error that carries
\* the rate-limit snapshot of that response, the Retry-After duration when
\* the header is present and positive, and as reset indicator the request
\* reset when present, otherwise the token reset.
C16_ExhaustedRateLimitIsTerminal ==
    LET n == Len(outcomes)
        make(body) == RateLimitedOf(outcomes[n].headers, body)
    IN  (n >= 1 /\ Is429(outcomes[n]) /\ n - 1 = retry.max_retries)
        => GaveUpAfter(n, make)

\* both reset headers were present on the last of three 429 responses
C16_Witness ==
    /\ Len(outcomes) = 3
    /\ retry.max_retries = 2
    /\ Is429(outcomes[3])
    /\ outcomes[3].headers = RateHeadersFull
    /\ cpc = "returned"
    /\ Unwrap(result).err.reset_at = Some(<<"1", "s">>)

\* C17: a status that is neither a success, nor 429, nor 5xx ends the call
\* at any attempt with an Api error carrying the status and the body (the
\* text read from the response, empty when it could not be read), without a
\* sleep and without another request, retries remaining or not; a 5xx
\* received when attempt = max_retries ends it with the same kind of error.
C17_OtherStatusIsTerminalApiError ==
    LET n == Len(outcomes)
        make(body) == [error |-> "Api", status |-> outcomes[n].status, body |-> body]
    IN  (/\ n >= 1
         /\ outcomes[n].kind = "response"
         /\ \/ ~(Is2xx(outcomes[n]) \/ Is429(outcomes[n]) \/ Is5xx(outcomes[n]))
            \/ Is5xx(outcomes[n]) /\ n - 1 = retry.max_retries)
        => GaveUpAfter(n, make)

\* a 404 at attempt 0 with retries remaining
C17_Witness ==
    /\ Len(outcomes) = 1
    /\ outcomes[1].kind = "response"
    /\ outcomes[1].status = 404
    /\ retry.max_retries > 0
    /\ cpc = "returned"
    /\ Unwrap(result).err.body = <<"o", "o", "p", "s">>

\* a server error on the last attempt allowed
C17_WitnessExhausted ==
    /\ Len(outcomes) = 3
    /\ Is5xx(outcomes[3])
    /\ cpc = "returned"

\* the text of the response could not be read
C17_WitnessUnread ==
    /\ Len(outcomes) = 1
    /\ cpc = "returned"
    /\ text = Some(Err("read"))
    /\ Unwrap(result).err.body = <<>>

\* C18: after a transport failure at attempt a the call, if a < max_retries
\* (every failure send() gives is retryable), sleeps exactly backoff(a),
\* adds one to attempt and sends again; otherwise it ends with the Http
\* error of that send, without a sleep.
C18_TransportFailureRetriedWithBackoff ==
    LET n == Len(outcomes) IN
    (n >= 1 /\ IsTransportFailure(outcomes[n]))
    => IF n - 1 < retry.max_retries
       THEN /\ Len(sleeps) = n
            /\ sleeps[n].delay = ExpectedBackoff(retry, n - 1)
            /\ result = None
            /\ \/ cpc = "sleeping" /\ attempt = n - 1 /\ sent = n
               \/ cpc = "start" /\ attempt = n /\ sent = n
               \/ cpc = "await_send" /\ attempt = n /\ sent = n + 1
       ELSE /\ StoppedAfter(n)
            /\ result = Some(Err([error |-> "Http", source |-> outcomes[n]]))

\* a request error was retried and the request is out again
C18_Witness ==
    /\ Len(outcomes) = 2
    /\ outcomes[2] = SendError("request")
    /\ cpc = "await_send"
    /\ sent = 3

\* C20: while a request sleeps between two attempts the executor thread is
\* not held by it, so that an unrelated task on the same thread can step.
C20_SleepLeavesThreadFree ==
    cpc = "sleeping" => running = "none"

\* C15: for every attempt number a and every base_delay and max_delay,
\* backoff_for(a) is min(base_delay * 2^min(a, 10), max_delay), and it never
\* decreases when a grows.
C15_BackoffIsCappedExponential ==
    /\ [](cpc = "computed" => delay = ExpectedBackoff(retry, attempt))
    /\ [][(cpc = "computed" /\ attempt' >= attempt) => BigLeq(delay, delay')]_vars

\* the exponent has stopped at 10 and the product is below max_delay
C15_Witness ==
    /\ cpc = "computed"
    /\ attempt = 12
    /\ retry.base_delay = Millis(7)
    /\ delay = Millis(7168)

\* the product was cut at max_delay
C15_WitnessCapped ==
    /\ cpc = "computed"
    /\ attempt = 6
    /\ retry.base_delay = Millis(500)
    /\ retry.max_delay = Seconds(30)
    /\ delay = Seconds(30)

\* the product is beyond Duration::MAX, where the multiplication stops
C15_WitnessSaturated ==
    /\ cpc = "computed"
    /\ attempt = 4
    /\ retry.base_delay = LongDelay
    /\ retry.max_delay = DurationMax
    /\ delay = DurationMax

----------------------------------------------------------------------------
(* Reading the history of a streaming call *)

\* the POST has returned a success and the body is being read, or was
Streaming ==
    /\ IsSome(result)
    /\ Unwrap(result).ok
    /\ cpc \in {"reading", "yielded", "failed", "ended"}

\* the bytes of the body delivered so far
DeliveredBytes ==
    LET body == Unwrap(Unwrap(result).val.body)
    IN  SubSeq(body, 1, Len(body) - Len(rest))

\* the reading of the body was broken off by the transport
BodyFailed == items # <<>> /\ Last(items) = Err("Http")

\* a decoder that has been given nothing
Fresh ==
    [buf |-> <<>>, items |-> <<>>, frames |-> <<>>, live |-> TRUE, susp |-> FALSE]

\* the decoder once its consumer has pulled every chunk it can yield from
\* what is in its buffer
RECURSIVE PulledOut(_)
PulledOut(st) ==
    IF st.susp /\ st.live
    THEN PulledOut(DrainFrames([st EXCEPT !.susp = FALSE]))
    ELSE st

\* the decoder of the call, pulled out
AtRest ==
    PulledOut([buf |-> buf, items |-> items, frames |-> frames,
               live |-> cpc \in {"reading", "yielded"},
               susp |-> cpc \in {"yielded", "failed"}])

\* the same bytes delivered as one chunk to a fresh decoder, pulled out
InOneChunk == PulledOut(PushChunk(Fresh, DeliveredBytes))

\* C11: however the bytes of the body are cut into chunks, inside a frame,
\* inside the two-byte delimiter or inside a multi-byte character, the
\* frames taken out, the items yielded and the way the stream has ended are
\* those of the same bytes delivered in one piece, once the consumer has
\* pulled what the bytes received give.
C11_FramesIndependentOfChunking ==
    (Streaming /\ ~BodyFailed)
    => /\ AtRest.frames = InOneChunk.frames
       /\ AtRest.items = InOneChunk.items
       /\ AtRest.buf = InOneChunk.buf
       /\ cpc # "yielded"
          => (frames = InOneChunk.frames /\ items = InOneChunk.items
              /\ buf = InOneChunk.buf)
       /\ cpc = "reading" => InOneChunk.live
       /\ (cpc = "failed" \/ (cpc = "ended" /\ rest # <<>>)) => ~InOneChunk.live
       /\ cpc = "failed" => (items # <<>> /\ ~Last(items).ok)

\* the body was cut between the two bytes of a delimiter and both frames of
\* the body came out
C11_Witness ==
    /\ Streaming
    /\ Len(delivered) = 2
    /\ Last(delivered[1]) = "\n"
    /\ Head(delivered[2]) = "\n"
    /\ Len(frames) = 2
    /\ Len(items) = 1
    /\ items[1].ok

\* the body was cut between the two bytes of a character
C11_WitnessInsideCharacter ==
    /\ Streaming
    /\ Len(delivered) = 2
    /\ Last(delivered[1]) = "C3"
    /\ Head(delivered[2]) = "A9"
    /\ Len(items) = 1
    /\ items[1].ok
    /\ items[1].chunk.model = <<"C3", "A9">>
    /\ cpc = "ended"

\* the frames of the bodies explored whose payload is [DONE]
DoneFrames ==
    {Data(DoneMark), DataPrefix \o <<" ">> \o DoneMark \o <<" ">> \o Delim}

DoneSeen == \E k \in 1..Len(frames) : frames[k] \in DoneFrames

\* C12: a frame whose payload is [DONE] ends the stream without an error; it
\* is the last frame taken out, whatever complete frames stand behind it in
\* the buffer and whatever bytes the body still holds, and from then on
\* nothing is read from the body and nothing is yielded.
C12_DoneEndsTheStream ==
    /\ [](\A k \in 1..Len(frames) :
            frames[k] \in DoneFrames
            => /\ k = Len(frames)
               /\ cpc = "ended"
               /\ \A i \in 1..Len(items) : items[i].ok)
    /\ [][DoneSeen => UNCHANGED <<rest, delivered, buf, items, frames, cpc>>]_vars

\* a complete frame stands behind [DONE] in the buffer
C12_Witness ==
    /\ DoneSeen
    /\ buf = Data(DocMin)
    /\ items = <<>>
    /\ cpc = "ended"

\* bytes of the body stay unread behind [DONE]
C12_WitnessUnread ==
    /\ DoneSeen
    /\ rest # <<>>
    /\ cpc = "ended"

\* the frames of the bodies explored that cannot be decoded, and the error
\* each of them ends the stream with
BadFrames == {Data(<<"{", "}", "FF">>), Data(DocOther), Data(DocCut)}

ErrorOf(frame) == IF frame = Data(<<"{", "}", "FF">>) THEN "Unknown" ELSE "Serde"

\* C19: once the POST of a streaming call has returned a success nothing is
\* sent and nothing is slept any more; a frame that is not UTF-8 or whose
\* payload is not a chunk, and a transport error while the body is read,
\* each end the stream with an error: the error is the last item, and the
\* next poll ends the stream.
C19_NoRetryOnceStreaming ==
    /\ [](Streaming
          => /\ \A k \in 1..Len(frames) :
                    frames[k] \in BadFrames
                    => /\ k = Len(frames)
                       /\ cpc \in {"failed", "ended"}
                       /\ items # <<>>
                       /\ Last(items) = Err(ErrorOf(frames[k]))
             /\ BodyFailed => cpc \in {"failed", "ended"}
             /\ cpc = "failed" => (items # <<>> /\ ~Last(items).ok)
             /\ sent = Len(outcomes)
             /\ Len(sleeps) = Len(outcomes) - 1)
    /\ [][Streaming => (Streaming' /\ UNCHANGED <<sent, sleeps, attempt, outcomes>>)]_vars
    /\ [][(Streaming /\ cpc \in {"failed", "ended"})
          => (cpc' = "ended" /\ UNCHANGED <<rest, delivered, buf, items, frames>>)]_vars

\* the body broke while a retry was still allowed, after a chunk was yielded
C19_Witness ==
    /\ Streaming
    /\ BodyFailed
    /\ Len(items) = 2
    /\ attempt < retry.max_retries
    /\ sent = 1
    /\ cpc = "ended"

\* a payload that is not a chunk ended the stream
C19_WitnessBadFrame ==
    /\ Streaming
    /\ frames # <<>>
    /\ Last(frames) = Data(DocOther)
    /\ Last(items) = Err("Serde")
    /\ attempt < retry.max_retries
    /\ sent = 1

----------------------------------------------------------------------------
(* Text, foreign choices and argument fragments of the event stream *)

\* the text fragments choice 0 of a chunk delivers, up to its terminal
\* reason; an absent and an empty text deliver nothing
RECURSIVE ChoiceTexts(_, _, _)
ChoiceTexts(choices, k, stop) ==
    IF k > stop THEN <<>>
    ELSE (IF choices[k].index = 0 /\ choices[k].content \notin {None, Some(<<>>)}
          THEN <<Unwrap(choices[k].content)>> ELSE <<>>)
         \o ChoiceTexts(choices, k + 1, stop)

ChunkTexts(chunk) ==
    ChoiceTexts(chunk.choices, 1,
                IF TerminalChoices(chunk) = {} THEN Len(chunk.choices)
                ELSE FirstOf(TerminalChoices(chunk)))

\* all text fragments delivered by the first n items
RECURSIVE FedTexts(_)
FedTexts(n) ==
    IF n = 0 THEN <<>>
    ELSE FedTexts(n - 1)
         \o (IF fed[n].item = "chunk" THEN ChunkTexts(fed[n]) ELSE <<>>)

\* the payloads of the TextDelta events among the first n items of out
RECURSIVE TextsOut(_)
TextsOut(n) ==
    IF n = 0 THEN <<>>
    ELSE TextsOut(n - 1) \o (IF out[n].kind = "TextDelta" THEN <<out[n].text>> ELSE <<>>)

\* C24: the payloads of the TextDelta events are, in order, the non-empty
\* text fragments choice 0 has delivered up to and including the chunk with
\* the terminal reason: those of the chunks before the last one at any time,
\* all of them once the last chunk has been gone through; an absent or empty
\* text gives no TextDelta.
C24_TextNeitherLostNorDuplicated ==
    /\ IsPrefix(TextsOut(Len(out)), FedTexts(Len(fed)))
    /\ fed # <<>> => IsPrefix(FedTexts(Len(fed) - 1), TextsOut(Len(out)))
    /\ BetweenChunks => TextsOut(Len(out)) = FedTexts(Len(fed))
    /\ \A k \in 1..Len(out) : out[k].kind = "TextDelta" => out[k].text # <<>>

\* an empty text, a text, and the text of the terminal chunk
C24_Witness ==
    /\ Len(fed) = 3
    /\ fed[1] = TextChunk(<<>>)
    /\ fed[2] = TextChunk(<<"h", "i">>)
    /\ fed[3].item = "chunk"
    /\ TerminalChoices(fed[3]) # {}
    /\ fed[3].choices[1].content = Some(<<"h", "i">>)
    /\ TextsOut(Len(out)) = <<<<"h", "i">>, <<"h", "i">>>>
    /\ pc = "ended"

\* a chunk without the choices whose index is not 0
RECURSIVE OwnChoices(_, _)
OwnChoices(choices, k) ==
    IF k > Len(choices) THEN <<>>
    ELSE (IF choices[k].index = 0 THEN <<choices[k]>> ELSE <<>>)
         \o OwnChoices(choices, k + 1)

HasForeignChoice(chunk) ==
    \E k \in 1..Len(chunk.choices) : chunk.choices[k].index # 0

\* the step runs the loop body on a chunk: from its top when the chunk is
\* taken, from a yield when the generator is polled again
InLoopBody ==
    /\ fed' # fed \/ (pc = "yielded" /\ IsSome(susp_at))
    /\ Last(fed').item = "chunk"

\* C25: a choice whose index is not 0 is ignored: at every poll a chunk that
\* holds such choices leaves the events, the accumulators and the end of the
\* sequence as the chunk without them does.
C25_ForeignChoiceIgnored ==
    [][(InLoopBody /\ HasForeignChoice(Last(fed')))
       => \E order \in Orders :
            LET base == IF fed' # fed THEN Held ELSE Unwrap(susp_at).base
                stop == IF fed' # fed THEN 1 ELSE Unwrap(susp_at).made + 1
                st == HandleChoices(Entering(base, stop),
                                    OwnChoices(Last(fed').choices, 1), 1, order)
            IN  /\ out' = st.out
                /\ tool_args' = st.tool_args
                /\ tool_seen' = st.tool_seen
                /\ (pc' = "yielded") = st.susp
                /\ (pc' = "ended") = (~st.susp /\ ~st.live)]_vars

\* a choice with index 1 brought a text, a tool call and a terminal reason:
\* the text of choice 0 behind it is the only event and the stream goes on
C25_Witness ==
    /\ Len(fed) = 1
    /\ fed[1].item = "chunk"
    /\ Len(fed[1].choices) = 2
    /\ fed[1].choices[1].index = 1
    /\ fed[1].choices[1].finish_reason = Some(Stop)
    /\ out = <<TextDelta(<<"h", "i">>)>>
    /\ tool_seen = <<>>
    /\ tool_args = <<>>
    /\ pc = "streaming"

\* the fragments of the ToolCallArgumentsDelta events among the first n
\* items of out, each with its index
RECURSIVE ArgumentEvents(_)
ArgumentEvents(n) ==
    IF n = 0 THEN <<>>
    ELSE ArgumentEvents(n - 1)
         \o (IF out[n].kind = "ToolCallArgumentsDelta"
             THEN <<<<out[n].index, out[n].arguments_fragment>>>> ELSE <<>>)

\* the argument fragments delivered that are present and not empty
RECURSIVE ArgumentsFed(_, _)
ArgumentsFed(deltas, k) ==
    IF k > Len(deltas) THEN <<>>
    ELSE (IF /\ IsSome(deltas[k].function)
             /\ deltas[k].function[1].arguments \notin {None, Some(<<>>)}
          THEN <<<<deltas[k].index, deltas[k].function[1].arguments[1]>>>>
          ELSE <<>>)
         \o ArgumentsFed(deltas, k + 1)

\* the argument texts delivered for index i, empty ones included
RECURSIVE BufferFed(_, _, _)
BufferFed(deltas, k, i) ==
    IF k > Len(deltas) THEN <<>>
    ELSE (IF /\ deltas[k].index = i
             /\ IsSome(deltas[k].function)
             /\ IsSome(deltas[k].function[1].arguments)
          THEN deltas[k].function[1].arguments[1] ELSE <<>>)
         \o BufferFed(deltas, k + 1, i)

\* C26: the ToolCallArgumentsDelta events carry, one for one and in order,
\* the argument fragments delivered that are not empty, each as it came and
\* never the buffer; a fragment whose argument text is empty gives no event
\* and leaves the content of the buffer as it was.  Inside a chunk the
\* events and the buffers are on their way there; once the chunk has been
\* gone through they are there.
C26_ArgumentsDeltaCarriesTheFragment ==
    LET deltas == FedDeltas(Len(fed)) IN
    /\ IsPrefix(ArgumentEvents(Len(out)), ArgumentsFed(deltas, 1))
    /\ \A i \in DOMAIN tool_args : IsPrefix(tool_args[i], BufferFed(deltas, 1, i))
    /\ BetweenChunks
       => /\ ArgumentEvents(Len(out)) = ArgumentsFed(deltas, 1)
          /\ \A i \in DOMAIN tool_args : tool_args[i] = BufferFed(deltas, 1, i)

\* an opening fragment with an empty argument text, then two halves
C26_Witness ==
    /\ Len(fed) = 3
    /\ fed[1] = DeltaChunk(Opening(0, CallA, <<"f">>))
    /\ fed[2] = DeltaChunk(ArgsOnly(0, FragOpen))
    /\ fed[3] = DeltaChunk(ArgsOnly(0, FragClose))
    /\ ArgumentEvents(Len(out)) = <<<<0, FragOpen>>, <<0, FragClose>>>>
    /\ tool_args[0] = FragOpen \o FragClose
    /\ pc = "streaming"

----------------------------------------------------------------------------
(* Frames without the prefix, the end of the body, and the buffer *)

NoPrefix(frame) == strip_prefix(frame, DataPrefix) = None

\* the first n of the frames fs, one behind the other, without those that
\* have no prefix; with utf8 set only frames of valid UTF-8 are left out
RECURSIVE WithoutUnprefixed(_, _, _)
WithoutUnprefixed(fs, n, utf8) ==
    IF n = 0 THEN <<>>
    ELSE WithoutUnprefixed(fs, n - 1, utf8)
         \o (IF NoPrefix(fs[n]) /\ (utf8 => from_utf8_ok(fs[n]))
             THEN <<>> ELSE fs[n])

\* the bytes received without the frames that have no prefix, given to a
\* fresh decoder that is pulled out
WithoutThem(utf8) ==
    LET fs == AtRest.frames
    IN  PulledOut(PushChunk(Fresh, WithoutUnprefixed(fs, Len(fs), utf8) \o AtRest.buf))

\* the items, the buffer and the end of the stream are those of a decoder
\* that was given the bytes st was decoded from
SameDecodingAs(st) ==
    /\ AtRest.items = st.items
    /\ AtRest.buf = st.buf
    /\ cpc # "yielded" => (items = st.items /\ buf = st.buf)
    /\ cpc = "reading" => st.live
    /\ (cpc = "failed" \/ (cpc = "ended" /\ rest # <<>>)) => ~st.live

\* C27 as stated: a frame that does not begin with "data: " yields no item
\* and no error and leaves the buffer, and the decoding goes on as if its
\* bytes had not been in the body, whatever the bytes of the frame are.
C27_UnprefixedFrameSkippedWhateverItsBytes ==
    (Streaming /\ ~BodyFailed)
    => SameDecodingAs(WithoutThem(FALSE))

\* C27: a frame of valid UTF-8 that does not begin with "data: " yields no
\* item and no error and leaves the buffer, and the decoding goes on as if
\* its bytes had not been in the body; a frame that is not valid UTF-8 ends
\* the stream with an error, prefix or none.
C27_UnprefixedFrameSkipped ==
    /\ (Streaming /\ ~BodyFailed)
       => SameDecodingAs(WithoutThem(TRUE))
    /\ \A k \in 1..Len(frames) :
            ~from_utf8_ok(frames[k])
            => /\ k = Len(frames)
               /\ cpc \in {"failed", "ended"}
               /\ items # <<>>
               /\ Last(items) = Err("Unknown")

\* a comment frame was passed over and the chunk behind it yielded
C27_Witness ==
    /\ Streaming
    /\ Len(frames) = 2
    /\ frames[1] = <<":", " ", "p", "i", "n", "g", "\n", "\n">>
    /\ Len(items) = 1
    /\ items[1].ok
    /\ cpc = "reading"

\* a frame that holds a payload behind a line feed was passed over, and the
\* payload, which is not a chunk, gave no error
C27_WitnessPayloadBehindLineFeed ==
    /\ Streaming
    /\ Len(frames) = 2
    /\ frames[2] = <<"\n">> \o Data(DocOther)
    /\ Len(items) = 1
    /\ items[1].ok
    /\ buf = <<>>
    /\ cpc = "ended"

\* the stream was ended by the end of the body: the decoder had not stopped
\* and the transport had not failed
EndedByTheBody ==
    /\ Streaming
    /\ cpc = "ended"
    /\ rest = <<>>
    /\ ~BodyFailed
    /\ InOneChunk.live

\* C28: when the body ends while the buffer holds bytes without a delimiter
\* behind them, the stream ends without an error and without an item for
\* those bytes, whatever they are: the items are those of the frames taken
\* out and the bytes stay in the buffer.
C28_UndelimitedTailDiscarded ==
    /\ [](EndedByTheBody
          => /\ items = InOneChunk.items
             /\ \A k \in 1..Len(items) : items[k].ok
             /\ frames = InOneChunk.frames
             /\ position(buf) = None)
    /\ [][(cpc = "reading" /\ cpc' = "ended" /\ delivered' = delivered
           /\ ~BodyFailed')
          => UNCHANGED <<items, frames, buf>>]_vars

\* the body ended behind a complete payload that had no delimiter
C28_Witness ==
    /\ EndedByTheBody
    /\ buf = DataPrefix \o DocMin
    /\ chunk_from_str(trim(Unwrap(strip_prefix(buf, DataPrefix)))).ok
    /\ items = <<>>
    /\ frames = <<>>

\* the body ended behind a byte that is not UTF-8
C28_WitnessNotUtf8 ==
    /\ EndedByTheBody
    /\ buf = <<"FF">>
    /\ items = <<>>
    /\ Len(frames) = 1

\* the body ended inside a frame, behind a chunk that was yielded
C28_WitnessInsideFrame ==
    /\ EndedByTheBody
    /\ buf = DataPrefix \o DocCut
    /\ Len(items) = 1

\* sequences put one behind the other
RECURSIVE Flatten(_, _)
Flatten(seqs, n) == IF n = 0 THEN <<>> ELSE Flatten(seqs, n - 1) \o seqs[n]

\* C29: the frames taken out so far, followed by the buffer, are the chunks
\* received so far; each frame ends with the first delimiter it holds; a
\* step appends the chunk it has read behind the bytes there were and takes
\* frames from the head only, leaving the frames taken before as they were.
C29_BufferConservation ==
    /\ [](/\ Flatten(frames, Len(frames)) \o buf = Flatten(delivered, Len(delivered))
          /\ \A k \in 1..Len(frames) :
                position(frames[k]) = Some(Len(frames[k]) - 2))
    /\ [][/\ IsPrefix(frames, frames')
          /\ Flatten(frames', Len(frames')) \o buf'
                = Flatten(frames, Len(frames)) \o buf
                  \o (IF delivered' # delivered THEN Last(delivered') ELSE <<>>)]_vars

\* a chunk ended inside a frame behind a complete one: the complete frame
\* left from the head and the beginning of the next one stayed
C29_Witness ==
    /\ Len(delivered) = 1
    /\ Len(frames) = 1
    /\ frames[1] = Data(DocMin)
    /\ buf = SubSeq(Data(DocOther), 1, 3)
    /\ cpc = "reading"

\* the second chunk completed the frame the first one had begun and brought
\* another one whole
C29_WitnessTwoFrames ==
    /\ Len(delivered) = 2
    /\ Len(delivered[1]) < Len(Data(DocMin))
    /\ frames = <<Data(DocMin), Data(DocOther)>>
    /\ buf = Data(DoneMark)

\* C30: the buffer holds no byte of a read once two later reads have been
\* appended: from the third read on it is no longer than the last two reads
\* together.
C30_LookAheadWithinTwoReads ==
    Len(delivered) >= 3
    => Len(buf) <= Len(delivered[Len(delivered)]) + Len(delivered[Len(delivered) - 1])

----------------------------------------------------------------------------
(* Two calls at once, the pulls of the application, and the drop *)

\* the events of the items the client yields, as the event stream makes
\* them one item after the other
RECURSIVE Feed(_, _, _, _)
Feed(st, its, k, order) ==
    IF k > Len(its) \/ ~st.live THEN st
    ELSE IF its[k].ok
    THEN Feed(HandleChoices(st, EventChunk(its[k].chunk).choices, 1, order),
              its, k + 1, order)
    ELSE [st EXCEPT !.out = Append(@, ErrItem("Backend")), !.live = FALSE]

\* what a call run alone gives for the reads g has taken: the bytes are
\* decoded in one piece and the items fed in one go; a failure of the POST
\* or of the transport comes last
AloneOn(g, order) ==
    Feed(Entering(HeldBy(NewCall), 0),
         PulledOut(PushChunk(Fresh, Flatten(g.got, Len(g.got)))).items, 1, order).out
    \o (IF g.broke THEN <<ErrItem("Backend")>> ELSE <<>>)

\* C21: two calls running at once on one adapter are independent: however
\* their reads and pulls interleave, the events of each are those it gives
\* alone on the reads it has taken itself, all of them once it has nothing
\* left to decode; a step of one call leaves the other's buffer,
\* accumulators and events as they were.
C21_ConcurrentCallsIndependent ==
    /\ [](\A c \in Calls :
            \E order \in Orders :
                LET alone == AloneOn(calls[c], order) IN
                /\ IsPrefix(calls[c].out, alone)
                /\ calls[c].gen \in {"body", "done"} => calls[c].out = alone)
    /\ [][\A c \in Calls :
            calls'[c] # calls[c]
            => \A d \in Calls \ {c} : calls'[d] = calls[d]]_vars

\* both calls have read bodies of their own: the first has its tool call
\* open, stands behind the fourth yield of its first chunk and has two
\* frames left to decode, the second has ended on a frame that is no chunk
C21_Witness ==
    /\ calls[1].gen = "yield"
    /\ IsSome(calls[1].at)
    /\ Unwrap(calls[1].at).made = 4
    /\ calls[1].buf = Data(DocClose) \o Data(DoneMark)
    /\ calls[1].tool_args = (0 :> <<"{">>)
    /\ Len(calls[1].out) = 4
    /\ calls[2].gen = "done"
    /\ calls[2].buf # <<>>
    /\ calls[2].tool_args = <<>>
    /\ calls[2].out = <<TextDelta(<<"a">>), ErrItem("Backend")>>

\* the application awaits an item it has asked for and was not given yet
Outstanding(g) == g.pulls > Len(g.out) + (IF g.gen = "done" THEN 1 ELSE 0)

\* C22: the stream is pulled: a call has given at most as many events as
\* the application has asked for, one at most for each step, and a read is
\* taken from the body and a frame drained from the buffer only while the
\* application awaits an item, or in the step it asks for one.
C22_PullBased ==
    /\ [](\A c \in Calls : Len(calls[c].out) <= calls[c].pulls)
    /\ [][\A c \in Calls :
            /\ Len(calls'[c].out) <= Len(calls[c].out) + 1
            /\ (calls'[c].got # calls[c].got \/ calls'[c].frames # calls[c].frames)
               => (Outstanding(calls[c]) \/ calls'[c].pulls = calls[c].pulls + 1)]_vars

\* one read has brought four frames: the first event of the first chunk
\* was given, the generator stands behind its first yield with the rest of
\* the chunk not handled, and the two frames behind are not decoded
C22_Witness ==
    /\ calls[1].gen = "yield"
    /\ calls[1].pulls = 1
    /\ Len(calls[1].got) = 1
    /\ calls[1].out = <<TextDelta(<<"a">>)>>
    /\ IsSome(calls[1].at)
    /\ Unwrap(calls[1].at).made = 1
    /\ calls[1].tool_seen = <<>>
    /\ Len(calls[1].frames) = 2
    /\ calls[1].buf = Data(DocClose) \o Data(DoneMark)
    /\ ~Outstanding(calls[1])

\* C23: once the application has dropped the stream of a call that is not
\* exhausted, nothing is done for the call any more: no read is taken, no
\* frame drained, no event given, no request sent and no sleep started.
C23_DropStopsTheCall ==
    [][\A c \in Calls : calls[c].dropped => calls'[c] = calls[c]]_vars

\* dropped between two events of a chunk, with frames still in the buffer
C23_Witness ==
    /\ calls[1].dropped
    /\ calls[1].gen = "yield"
    /\ IsSome(calls[1].at)
    /\ calls[1].at # calls[2].at
    /\ position(calls[1].buf) # None

\* dropped while a read of the body was awaited and the transport still
\* held one
C23_WitnessUnread ==
    /\ calls[1].dropped
    /\ calls[1].gen = "body"
    /\ calls[1].reads # <<>>

\* dropped while the second request was awaited
C23_WitnessRequest ==
    /\ calls[1].dropped
    /\ calls[1].gen = "post"
    /\ calls[1].sent = 2
    /\ calls[1].slept = 1

----------------------------------------------------------------------------
(* A frame that cannot be decoded *)

\* the payload of a frame that has the prefix
Payload(frame) == trim(Unwrap(strip_prefix(frame, DataPrefix)))

\* a frame that is not valid UTF-8, or has the prefix and a payload that is
\* neither the sentinel nor a chunk
Undecodable(frame) ==
    \/ ~from_utf8_ok(frame)
    \/ /\ ~NoPrefix(frame)
       /\ Payload(frame) # DoneMark
       /\ ~chunk_from_str(Payload(frame)).ok

\* the events of the chunks in the first n frames of g
EventsBefore(g, n, order) ==
    Feed(Entering(HeldBy(NewCall), 0),
         PulledOut(PushChunk(Fresh, Flatten(g.frames, n))).items, 1, order).out

HitUndecodable(g) == g.frames # <<>> /\ Undecodable(Last(g.frames))

\* C31: a frame that is not valid UTF-8, or whose payload is neither the
\* sentinel nor a chunk, ends the stream with an error: the events of the
\* chunks in the frames before it have been given and stay, the error is
\* the last item, and no frame is drained and no read taken after it.
C31_UndecodableFrameIsFatal ==
    /\ [](\A c \in Calls : \A k \in 1..Len(calls[c].frames) :
            Undecodable(calls[c].frames[k])
            => /\ k = Len(calls[c].frames)
               /\ calls[c].gen \in {"yield", "done"}
               /\ calls[c].fin
               /\ calls[c].at = None
               /\ \E order \in Orders :
                    calls[c].out = EventsBefore(calls[c], k - 1, order)
                                    \o <<ErrItem("Backend")>>)
    /\ [][\A c \in Calls :
            (\/ calls'[c].out # calls[c].out
             \/ calls'[c].frames # calls[c].frames
             \/ calls'[c].buf # calls[c].buf
             \/ calls'[c].got # calls[c].got)
            => ~HitUndecodable(calls[c])]_vars

\* a frame that is not UTF-8 came behind a chunk and before a frame that
\* could be decoded: the text was given, the error is last, the stream is
\* over and the last frame is still in the buffer
C31_Witness ==
    /\ Len(calls[1].frames) = 2
    /\ calls[1].frames[2] = <<"FF">> \o Delim
    /\ calls[1].out = <<TextDelta(<<"a">>), ErrItem("Backend")>>
    /\ calls[1].buf = Data(DocClose)
    /\ calls[1].gen = "done"

\* the same with a payload that is not JSON
C31_WitnessNotJson ==
    /\ Len(calls[1].frames) = 2
    /\ calls[1].frames[2] = Data(DocCut)
    /\ calls[1].out = <<TextDelta(<<"a">>), ErrItem("Backend")>>
    /\ calls[1].buf = Data(DocClose)
    /\ calls[1].gen = "done"

----------------------------------------------------------------------------
(* The id and the name of a completed tool call *)

\* the ids the fragments of index i supplied, in the order of the stream
RECURSIVE IdsOf(_, _, _)
IdsOf(deltas, k, i) ==
    IF k = 0 THEN <<>>
    ELSE IdsOf(deltas, k - 1, i)
         \o (IF deltas[k].index = i /\ IsSome(deltas[k].id)
             THEN <<Unwrap(deltas[k].id)>> ELSE <<>>)

\* the names the fragments of index i supplied, in the order of the stream
RECURSIVE NamesOf(_, _, _)
NamesOf(deltas, k, i) ==
    IF k = 0 THEN <<>>
    ELSE NamesOf(deltas, k - 1, i)
         \o (IF /\ deltas[k].index = i
                /\ IsSome(deltas[k].function)
                /\ IsSome(Unwrap(deltas[k].function).name)
             THEN <<Unwrap(Unwrap(deltas[k].function).name)>> ELSE <<>>)

Completed == {k \in 1..Len(out) : out[k].kind = "ToolCallComplete"}

\* C32: the ToolCallComplete of an index carries the id and the name its
\* ToolCallStart events announced, whatever later fragments supply.
C32_CompleteCarriesFirstSeen ==
    \A k \in Completed : \A j \in At("ToolCallStart", out[k].index) :
        /\ IsSome(out[j].id) => out[k].id = Unwrap(out[j].id)
        /\ IsSome(out[j].name) => out[k].name = Unwrap(out[j].name)

----------------------------------------------------------------------------
(* The order of the parts of one chunk *)

\* where an event stands in the order text, tool-call fragments, terminal reason
Rank(e) ==
    CASE e.kind = "TextDelta" -> 1
      [] e.kind \in {"ToolCallStart", "ToolCallArgumentsDelta"} -> 2
      [] e.kind = "ToolCallComplete" -> 3
      [] OTHER -> 4

\* the chunk in hand has choice 0 as its only choice
OneChoice(chunk) ==
    /\ chunk.item = "chunk"
    /\ Len(chunk.choices) = 1
    /\ chunk.choices[1].index = 0

\* the buffer of index i in the accumulators held
BufferIn(held, i) == IF i \in DOMAIN held.tool_args THEN held.tool_args[i] ELSE <<>>

\* C33: the events of one choice come in the order text, tool-call fragments,
\* terminal reason: a text is the first event of its chunk, and no event of
\* the chunk stands before one of an earlier part; when the choice carries
\* tool-call fragments together with the tool-calls terminal reason, every
\* index is completed from the buffer extended by the text of the choice,
\* and every index that got argument text in the choice has been completed
\* when MessageEnd comes.
C33_TextThenFragmentsThenReason ==
    [][/\ (fed' # fed /\ OneChoice(Last(fed'))
           /\ Last(fed').choices[1].content \notin {None, Some(<<>>)})
          => out' = Append(out, TextDelta(Unwrap(Last(fed').choices[1].content)))
       /\ (fed' = fed /\ pc = "yielded" /\ IsSome(susp_at) /\ OneChoice(Last(fed))
           /\ out' # out)
          => LET choice == Last(fed).choices[1]
                 deltas == IF IsSome(choice.tool_calls)
                           THEN Unwrap(choice.tool_calls) ELSE <<>>
                 base == Unwrap(susp_at).base
                 e == Last(out')
             IN  /\ out' = Append(out, e)
                 /\ Rank(Last(out)) <= Rank(e)
                 /\ e.kind = "ToolCallComplete"
                    => e.arguments
                         = from_str(BufferIn(base, e.index)
                                    \o BufferFed(deltas, 1, e.index)).val
                 /\ (e = MessageEnd /\ choice.finish_reason = Some(ToolCalls))
                    => \A d \in 1..Len(deltas) :
                          (/\ IsSome(deltas[d].function)
                           /\ IsSome(Unwrap(deltas[d].function).arguments))
                          => \E k \in (Len(base.out) + 1)..Len(out) :
                                /\ out[k].kind = "ToolCallComplete"
                                /\ out[k].index = deltas[d].index]_vars

\* C33 witness: one chunk with text, an argument fragment and the tool-calls
\* reason gave the text, the fragment's delta, the completion and MessageEnd.
C33_Witness ==
    /\ Len(fed) = 2
    /\ fed[1] = DeltaChunk(IdOnly(0, CallA))
    /\ fed[2] = Chunk(<<Choice(0, Some(<<"h", "i">>), Some(<<ArgsOnly(0, FragWhole)>>),
                             Some(ToolCalls))>>)
    /\ out = <<ToolCallStart(0, Some(CallA), None), TextDelta(<<"h", "i">>),
               ToolCallArgumentsDelta(0, FragWhole),
               ToolCallComplete(0, CallA, <<"t", "o", "o", "l">>,
                                from_str(FragWhole).val),
               MessageEnd>>

\* the same chunk alone, polled once: its text is there, the fragment, the
\* completion and MessageEnd are still to be pulled
C33_WitnessFirstYield ==
    /\ fed = <<Chunk(<<Choice(0, Some(<<"h", "i">>), Some(<<ArgsOnly(0, FragWhole)>>),
                               Some(ToolCalls))>>)>>
    /\ out = <<TextDelta(<<"h", "i">>)>>
    /\ tool_args = <<>>
    /\ pc = "yielded"

----------------------------------------------------------------------------
(* The accumulators only grow *)

\* C34: in every step, every argument buffer is a prefix of what it is after
\* the step, and an id or a name that is set stays set.
C34_AccumulatorsMonotonic ==
    [][/\ \A i \in DOMAIN tool_args :
            /\ i \in DOMAIN tool_args'
            /\ IsPrefix(tool_args[i], tool_args'[i])
       /\ \A i \in DOMAIN tool_seen :
            /\ i \in DOMAIN tool_seen'
            /\ IsSome(tool_seen[i].id) => IsSome(tool_seen'[i].id)
            /\ IsSome(tool_seen[i].name) => IsSome(tool_seen'[i].name)]_vars

\* C34 witness: a buffer that grew by two fragments, beside an id and a name.
C34_Witness ==
    /\ 0 \in DOMAIN tool_args
    /\ tool_args[0] = FragOpen \o FragClose
    /\ tool_seen[0] = [id |-> Some(CallA), name |-> Some(<<"f">>)]

----------------------------------------------------------------------------
(* Placeholders for a missing id or name *)
DecimalDigits == <<"0", "1", "2", "3", "4", "5", "6", "7", "8", "9">>

\* the decimal numeral of n
RECURSIVE Decimal(_)
Decimal(n) ==
    IF n < 10 THEN <<DecimalDigits[n + 1]>>
    ELSE Decimal(n \div 10) \o <<DecimalDigits[(n % 10) + 1]>>

\* 'toolcall-<index>'
ToolcallDash(i) == <<"t", "o", "o", "l", "c", "a", "l", "l", "-">> \o Decimal(i)

\* C35: a completed index that never got a name is completed as 'tool', one
\* that never got an id as 'toolcall-<index>'; an index that got a name or an
\* id is completed with one it got, never with the placeholder.
C35_PlaceholdersOnlyWhenNeverObserved ==
    \A k \in Completed :
        LET deltas == FedDeltas(Len(fed))
            ids == IdsOf(deltas, Len(deltas), out[k].index)
            names == NamesOf(deltas, Len(deltas), out[k].index)
        IN  /\ out[k].name = (IF names = <<>> THEN <<"t", "o", "o", "l">> ELSE out[k].name)
            /\ out[k].id = (IF ids = <<>> THEN ToolcallDash(out[k].index)
                            ELSE out[k].id)
            /\ names # <<>> => out[k].name \in Range(names)
            /\ ids # <<>> => out[k].id \in Range(ids)

\* C35 witness: the last index completed with both placeholders.
C35_Witness ==
    \E k \in Completed :
        /\ out[k].index = MaxIndex
        /\ out[k].name = <<"t", "o", "o", "l">>
        /\ out[k].id = ToolcallDash(MaxIndex)
        /\ tool_seen[MaxIndex] = [id |-> None, name |-> None]

\* C35 witness: an index with a name and no id keeps the name and gets the
\* placeholder id.
C35_WitnessNameOnly ==
    \E k \in Completed :
        /\ out[k].index = 0
        /\ out[k].name = <<"f">>
        /\ out[k].id = <<"t", "o", "o", "l", "c", "a", "l", "l", "-", "0">>

----------------------------------------------------------------------------
(* The bound on requests and sleeps of one call *)

\* C36: one call sends at most max_retries + 1 requests and sleeps at most
\* max_retries times; the attempt counter starts at 0, is the number of
\* retries made whatever the outcomes were (the k-th sleep is entered with
\* attempt k - 1), never exceeds max_retries, and changes only by growing by
\* one at the end of a sleep.
C36_BoundedAttempts ==
    /\ [](/\ attempt \in 0..retry.max_retries
          /\ sent <= retry.max_retries + 1
          /\ Len(sleeps) <= retry.max_retries
          /\ \A k \in 1..Len(sleeps) : sleeps[k].attempt = k - 1
          /\ Len(sleeps) = attempt + (IF cpc = "sleeping" THEN 1 ELSE 0)
          /\ sent = attempt + (IF cpc = "start" THEN 0 ELSE 1)
          /\ Len(outcomes) = sent - (IF cpc = "await_send" THEN 1 ELSE 0))
    /\ [][/\ attempt' # attempt => (attempt' = attempt + 1 /\ cpc = "sleeping")
          /\ cpc = "sleeping" => attempt' = attempt + 1]_vars

\* C36 witness: a call that used every retry, on a transport failure and on
\* a status, and stopped.
C36_Witness ==
    /\ retry.max_retries = MaxRetries
    /\ cpc = "returned"
    /\ sent = MaxRetries + 1
    /\ Len(sleeps) = MaxRetries
    /\ attempt = MaxRetries
    /\ IsTransportFailure(outcomes[1])
    /\ Is429(outcomes[2])

----------------------------------------------------------------------------
(* The call returns *)

\* the call has a result exactly when it has returned, and a result is never
\* replaced: a returned call sends and sleeps no more
ResultIsFinal ==
    /\ [](cpc = "returned" <=> IsSome(result))
    /\ [][IsSome(result) => (result' = result /\ cpc' = cpc /\ sent' = sent
                              /\ sleeps' = sleeps)]_vars

\* C37 as stated: when every send and every sleep returns, the call returns:
\* it has a result exactly when it has returned, the result is a success or
\* one error, it is never replaced, and every run gets there.
C37_CallTerminates ==
    /\ <>(cpc = "returned")
    /\ ResultIsFinal

\* C37: when every send, every sleep and every read of the body of a response
\* that is not retried returns, the call returns: every run in which
\* resp.text() does not stay pending gets to a result, which is a success
\* or one error and is never replaced.
C37_CallTerminatesWhenTextReturns ==
    /\ TextReturns => <>(cpc = "returned")
    /\ ResultIsFinal

\* C37 witness: the call slept, then took a response it does not retry, read
\* its body and returned the error built from it.
C37_Witness ==
    /\ cpc = "returned"
    /\ IsSome(result)
    /\ ~Unwrap(result).ok
    /\ Len(sleeps) >= 1
    /\ IsSome(text)

\* C37 witness: resp.text() is awaited after a sleep; the call stays here
\* for as long as the read stays pending.
C37_WitnessAwaitingText ==
    /\ AwaitingText
    /\ ~IsSome(result)
    /\ Len(sleeps) >= 1

\* C37 witness: the call returned a success after it had used every retry.
C37_WitnessSuccess ==
    /\ cpc = "returned"
    /\ IsSome(result)
    /\ Unwrap(result).ok
    /\ retry.max_retries = MaxRetries
    /\ Len(sleeps) = MaxRetries

----------------------------------------------------------------------------
(* The kind of the terminal error *)

\* the error the call returned
TerminalError == Unwrap(result).err

\* C38: the kind of the error a call returns is decided by its last outcome
\* alone: RateLimited exactly when it was a 429, Api exactly when it was
\* another status that is not a success, Http exactly when the send failed.
C38_ErrorKindFromLastOutcome ==
    (IsSome(result) /\ ~Unwrap(result).ok)
    => /\ outcomes # <<>>
       /\ TerminalError.error \in {"RateLimited", "Api", "Http"}
       /\ TerminalError.error = "RateLimited" <=> Is429(Last(outcomes))
       /\ TerminalError.error = "Api"
            <=> /\ Last(outcomes).kind = "response"
                /\ Last(outcomes).status # 429
                /\ Last(outcomes).status \notin 200..299
       /\ TerminalError.error = "Http" <=> IsTransportFailure(Last(outcomes))

\* C38 witness: 429, 429 and then 500 on the last attempt allowed is an Api
\* error.
C38_Witness ==
    /\ Len(outcomes) = 3
    /\ Is429(outcomes[1])
    /\ Is429(outcomes[2])
    /\ Is5xx(outcomes[3])
    /\ IsSome(result)
    /\ TerminalError.error = "Api"

\* C38 witness: a send that failed after a 500 is an Http error; a 429 after a
\* send that failed is a RateLimited error.
C38_WitnessTransport ==
    /\ Len(outcomes) = 2
    /\ IsSome(result)
    /\ \/ Is5xx(outcomes[1]) /\ IsTransportFailure(outcomes[2])
          /\ TerminalError.error = "Http"
       \/ IsTransportFailure(outcomes[1]) /\ Is429(outcomes[2])
          /\ TerminalError.error = "RateLimited"

----------------------------------------------------------------------------
(* The non-streaming call returns a value *)

\* C39: chat_complete always returns a value, a response or an error,
\* whatever the finish reason of the response is and also when it has no
\* choices; the task is never aborted.
C39_ChatCompleteAlwaysReturns ==
    /\ cpc # "panicked"
    /\ cpc = "done" => IsSome(result)

====
